---------------------------- MODULE Spec2Model ----------------------------
(***************************************************************************)
(* A model of the fMP4 -> progressive MP4 remuxer:                         *)
(*   FragmentParser  (src/src/core/FragmentParser.ts)                      *)
(*   TimelineNormalizer and Mp4Builder (src/src/core/Mp4Builder.ts)        *)
(*   flattenFmp4ToMp4WithOptions (src/src/core/index.ts)                   *)
(*                                                                         *)
(* Three specifications share the operators that model the code:           *)
(*   SpecNorm  - a caller hands arbitrary Sample lists to                  *)
(*               TimelineNormalizer.normalize / normalizeFragments;        *)
(*   SpecPipe  - the flatten pipeline: parse each fragment, normalize,     *)
(*               build (timeline oriented inputs);                         *)
(*   SpecBuild - the same pipeline on fragments with large samples, so     *)
(*               that chunk offsets cross the 32-bit range.                *)
(***************************************************************************)
EXTENDS Integers, Sequences, FiniteSets, TLC

(***************************************************************************)
(* Bounds of the model.                                                    *)
(***************************************************************************)
\* samples of one input, over all its files
MaxSamples == 3
\* files of one input
MaxFiles == 2

(***************************************************************************)
(* JavaScript numbers.  A Sample's dts, cts and duration are JS numbers:   *)
(* an integer, or one of the three non-finite values.  The non-finite      *)
(* values are encoded as reserved integers outside the range the model's   *)
(* finite values can reach, ordered so that NInf < finite < PInf.          *)
(***************************************************************************)
PInf == 1000000
NInf == -1000000
NaN == 2000000

IsFinite(v) == v \notin {NaN, PInf, NInf}

\* a + b
JAdd(a, b) ==
    IF a = NaN \/ b = NaN THEN NaN
    ELSE IF a = PInf THEN (IF b = NInf THEN NaN ELSE PInf)
    ELSE IF a = NInf THEN (IF b = PInf THEN NaN ELSE NInf)
    ELSE IF b = PInf \/ b = NInf THEN b
    ELSE a + b

\* -a
JNeg(a) ==
    IF a = NaN THEN NaN
    ELSE IF a = PInf THEN NInf
    ELSE IF a = NInf THEN PInf
    ELSE 0 - a

\* a - b
JSub(a, b) == JAdd(a, JNeg(b))

\* a < b and a > b: false as soon as one side is NaN
JLt(a, b) == a # NaN /\ b # NaN /\ a < b
JGt(a, b) == JLt(b, a)

\* Math.max(a, b)
MathMax(a, b) ==
    IF a = NaN \/ b = NaN THEN NaN
    ELSE IF a < b THEN b ELSE a

(***************************************************************************)
(* TimelineNormalizer                                                      *)
(***************************************************************************)

\* A Sample object carries its identity in ref: the number the caller of the
\* normalizer gave it, 0 for an object made anywhere else.  { ...s } (lines
\* 418 and 446) makes a new object with the fields of s.
Spread(s) == [s EXCEPT !.ref = 0]

\* samples.map((s) => ({ ...s }))
RECURSIVE SpreadAll(_)
SpreadAll(samples) ==
    IF Len(samples) = 0 THEN << >>
    ELSE <<Spread(Head(samples))>> \o SpreadAll(Tail(samples))

\* a repair that gives the last sample 1 whatever came before it
RepairedDuration_LastIsOne(ordered, i) ==
    IF i < Len(ordered)
    THEN LET delta == JSub(ordered[i + 1].dts, ordered[i].dts)
         IN  IF IsFinite(delta) /\ JGt(delta, 0) THEN delta ELSE 1
    ELSE 1

\* the zero-duration repair of one sample, shared in shape by
\* inferDurationsWithinFile and normalize: the value cur.duration gets
RepairedDuration(ordered, i) ==
    IF i < Len(ordered)
    THEN LET delta == JSub(ordered[i + 1].dts, ordered[i].dts)
         IN  IF IsFinite(delta) /\ JGt(delta, 0) THEN delta ELSE 1
    ELSE IF Len(ordered) > 1 THEN MathMax(1, ordered[i - 1].duration) ELSE 1

\* the first loop of inferDurationsWithinFile, from index i on
RECURSIVE InferLoop(_, _)
InferLoop(ordered, i) ==
    IF i > Len(ordered) THEN ordered
    ELSE IF ordered[i].duration = 0
         THEN InferLoop([ordered EXCEPT ![i].duration = RepairedDuration(ordered, i)], i + 1)
         ELSE InferLoop(ordered, i + 1)

\* the second loop of inferDurationsWithinFile: the largest end seen
RECURSIVE FileDurationLoop(_, _, _)
FileDurationLoop(ordered, i, fileDuration) ==
    IF i > Len(ordered) THEN fileDuration
    ELSE LET end == JAdd(ordered[i].dts, MathMax(0, ordered[i].duration))
         IN  FileDurationLoop(ordered, i + 1,
                              IF JGt(end, fileDuration) THEN end ELSE fileDuration)

inferDurationsWithinFile(samples) ==
    IF Len(samples) = 0 THEN [samples |-> << >>, fileDuration |-> 0]
    ELSE LET ordered == InferLoop(SpreadAll(samples), 1)
         IN  [samples |-> ordered, fileDuration |-> FileDurationLoop(ordered, 1, 0)]

\* Sanitize that leaves the duration as it came
Sanitize_KeepDuration(s) ==
    LET d1 == IF ~IsFinite(s.dts) \/ JLt(s.dts, 0) THEN 0 ELSE s.dts
        c1 == IF ~IsFinite(s.cts) \/ JLt(s.cts, 0) THEN d1 ELSE s.cts
    IN  [s EXCEPT !.dts = d1, !.cts = c1]

\* lines 456-458 of normalize: non-finite or negative fields are reset
Sanitize(s) ==
    LET d1 == IF ~IsFinite(s.dts) \/ JLt(s.dts, 0) THEN 0 ELSE s.dts
        c1 == IF ~IsFinite(s.cts) \/ JLt(s.cts, 0) THEN d1 ELSE s.cts
        u1 == IF ~IsFinite(s.duration) \/ JLt(s.duration, 0) THEN 0 ELSE s.duration
    IN  [s EXCEPT !.dts = d1, !.cts = c1, !.duration = u1]

\* ShiftAfter that adds the shift to cts and forgets dts
ShiftAfter_CtsOnly(prev, cur) ==
    LET t1 == IF JLt(cur.dts, prev.dts) THEN prev.dts ELSE cur.dts
        prevEnd == JAdd(prev.dts, MathMax(1, prev.duration))
        targetDts == IF JLt(t1, prevEnd) THEN prevEnd ELSE t1
        shift == JSub(targetDts, cur.dts)
    IN  IF JGt(shift, 0) THEN [cur EXCEPT !.cts = JAdd(cur.cts, shift)] ELSE cur

\* lines 460-472 of normalize: cur is pushed after prev
ShiftAfter(prev, cur) ==
    LET t1 == IF JLt(cur.dts, prev.dts) THEN prev.dts ELSE cur.dts
        prevEnd == JAdd(prev.dts, MathMax(1, prev.duration))
        targetDts == IF JLt(t1, prevEnd) THEN prevEnd ELSE t1
        shift == JSub(targetDts, cur.dts)
    IN  IF JGt(shift, 0)
        THEN [cur EXCEPT !.dts = JAdd(cur.dts, shift), !.cts = JAdd(cur.cts, shift)]
        ELSE cur

\* ClampCts left out
ClampCts_Missing(s) == s

\* line 474 of normalize
ClampCts(s) == IF JLt(s.cts, s.dts) THEN [s EXCEPT !.cts = s.dts] ELSE s

\* the first loop of normalize (lines 453-475), from index i on
RECURSIVE MonotonizeLoop(_, _)
MonotonizeLoop(list, i) ==
    IF i > Len(list) THEN list
    ELSE LET c0 == Sanitize(list[i])
             c1 == IF i > 1 THEN ShiftAfter(list[i - 1], c0) ELSE c0
         IN  MonotonizeLoop([list EXCEPT ![i] = ClampCts(c1)], i + 1)

\* a second loop that raises the flag at every gap, whatever the duration
RECURSIVE DurationLoop_FlagsEveryGap(_, _, _)
DurationLoop_FlagsEveryGap(list, i, disc) ==
    IF i > Len(list) THEN [samples |-> list, discontinuityDetected |-> disc]
    ELSE LET delta == IF i < Len(list) THEN JSub(list[i + 1].dts, list[i].dts) ELSE 0
             found == i < Len(list) /\ IsFinite(delta) /\ JGt(delta, 1)
         IN  IF list[i].duration = 0
             THEN DurationLoop_FlagsEveryGap(
                     [list EXCEPT ![i].duration = RepairedDuration(list, i)],
                     i + 1, disc \/ found)
             ELSE DurationLoop_FlagsEveryGap(list, i + 1, disc \/ found)

\* the second loop of normalize (lines 477-490), from index i on; the state
\* is the list and the flag
RECURSIVE DurationLoop(_, _, _)
DurationLoop(list, i, disc) ==
    IF i > Len(list) THEN [samples |-> list, discontinuityDetected |-> disc]
    ELSE IF list[i].duration = 0
         THEN LET delta == IF i < Len(list) THEN JSub(list[i + 1].dts, list[i].dts) ELSE 0
                  found == i < Len(list) /\ IsFinite(delta) /\ JGt(delta, 1)
              IN  DurationLoop([list EXCEPT ![i].duration = RepairedDuration(list, i)],
                               i + 1, disc \/ found)
         ELSE DurationLoop(list, i + 1, disc)

\* normalize on a list that is already in processing order
normalizeOrdered(ordered) == DurationLoop(MonotonizeLoop(ordered, 1), 1, FALSE)

\* the comparator of line 448 says a goes before b (i, j are the original
\* indices); used only when every key is finite
SortsBefore(a, i, b, j) ==
    \/ a.dts < b.dts
    \/ a.dts = b.dts /\ a.cts < b.cts
    \/ a.dts = b.dts /\ a.cts = b.cts /\ i < j

IndexOrders(n) ==
    {p \in [1..n -> 1..n] : \A i, j \in 1..n : i # j => p[i] # p[j]}

\* The orders Array.prototype.sort can leave the list in.  With finite keys
\* the comparator is a total order and the result is the sorted list.  With
\* a non-finite key a difference can be NaN, which || skips for the next
\* key: the comparator need not be a consistent order then, and the order
\* sort leaves is implementation-defined: any permutation.
SortOutcomes(samples) ==
    LET n == Len(samples)
        finite == \A i \in 1..n : IsFinite(samples[i].dts) /\ IsFinite(samples[i].cts)
    IN  {[k \in 1..n |-> samples[p[k]]] : p \in
           {q \in IndexOrders(n) :
              finite => \A k \in 1..(n - 1) :
                          SortsBefore(samples[q[k]], q[k], samples[q[k + 1]], q[k + 1])}}

\* normalize(samples, {preserveOrder}): the set of results it can return
normalize(samples, preserveOrder) ==
    IF preserveOrder THEN {normalizeOrdered(SpreadAll(samples))}
    ELSE {normalizeOrdered(o) : o \in SortOutcomes(SpreadAll(samples))}

\* The caller's object s after a call.  lists are the lists the code wrote
\* to, in the order it wrote them: if s itself (not a copy) is in one of
\* them, the last such list holds the fields s ends with.
RECURSIVE WrittenBack(_, _)
WrittenBack(s, lists) ==
    IF Len(lists) = 0 THEN s
    ELSE IF s.ref # 0 /\ \E i \in 1..Len(lists[Len(lists)]) : lists[Len(lists)][i].ref = s.ref
    THEN lists[Len(lists)][CHOOSE i \in 1..Len(lists[Len(lists)]) :
                               lists[Len(lists)][i].ref = s.ref]
    ELSE WrittenBack(s, SubSeq(lists, 1, Len(lists) - 1))

\* the caller's lists after a call that wrote to the given lists
CallerAfter(fragmentsSamples, lists) ==
    [f \in 1..Len(fragmentsSamples) |->
        [i \in 1..Len(fragmentsSamples[f]) |-> WrittenBack(fragmentsSamples[f][i], lists)]]

\* lines 508-511: one file's samples shifted by the running offset
ShiftFile(samples, timelineOffset) ==
    [k \in 1..Len(samples) |->
        [samples[k] EXCEPT !.dts = JAdd(samples[k].dts, timelineOffset),
                           !.cts = JAdd(samples[k].cts, timelineOffset)]]

\* an offset that advances by the end of the file's last sample
OffsetAdvance_LastEnd(inferred) ==
    IF Len(inferred.samples) = 0 THEN 0
    ELSE JAdd(inferred.samples[Len(inferred.samples)].dts,
              MathMax(0, inferred.samples[Len(inferred.samples)].duration))

\* what one file adds to the running offset (line 512)
OffsetAdvance(inferred) == inferred.fileDuration

\* the loop of normalizeFragments (lines 504-516), from file f on
RECURSIVE FragmentsLoop(_, _, _, _, _)
FragmentsLoop(fragmentsSamples, f, normalizeAcrossFiles, allSamples, timelineOffset) ==
    IF f > Len(fragmentsSamples) THEN allSamples
    ELSE LET inferred == inferDurationsWithinFile(fragmentsSamples[f])
         IN  IF normalizeAcrossFiles
             THEN FragmentsLoop(fragmentsSamples, f + 1, normalizeAcrossFiles,
                                allSamples \o ShiftFile(inferred.samples, timelineOffset),
                                JAdd(timelineOffset, OffsetAdvance(inferred)))
             ELSE FragmentsLoop(fragmentsSamples, f + 1, normalizeAcrossFiles,
                                allSamples \o inferred.samples, timelineOffset)

\* the list normalizeFragments hands to normalize (line 519)
CrossFileOffset(fragmentsSamples, normalizeAcrossFiles) ==
    FragmentsLoop(fragmentsSamples, 1, normalizeAcrossFiles, << >>, 0)

\* a normalizeFragments that sorts the list by dts before it processes it
normalizeFragments_Sorted(fragmentsSamples, normalizeAcrossFiles) ==
    CHOOSE r \in normalize(CrossFileOffset(fragmentsSamples, normalizeAcrossFiles), FALSE) :
        TRUE

normalizeFragments(fragmentsSamples, normalizeAcrossFiles) ==
    normalizeOrdered(SpreadAll(CrossFileOffset(fragmentsSamples, normalizeAcrossFiles)))


(***************************************************************************)
(* Machine words.  The 32-bit fields of the file format hold 0 .. 2^32-1   *)
(* and the safe-integer range of a JS number ends at 2^53-1.  Both ranges  *)
(* are scaled down, keeping their order, so that the model can reach and   *)
(* cross them: every test of the code against 2^32 or MAX_SAFE_INTEGER is  *)
(* a test against Word32 or MaxSafeInteger here.                           *)
(***************************************************************************)
Word32 == 4096
MaxSafeInteger == 262143

\* v >>> 0 and ByteWriter.writeU32: the value modulo 2^32
ToUint32(v) == v % Word32

\* readI32: the 32-bit field read as a signed number
ToInt32(bits) == IF 2 * bits >= Word32 THEN bits - Word32 ELSE bits

\* ByteWriter.writeU64: the high and the low word of the value
ToUint64(v) == ((v \div Word32) % Word32) * Word32 + (v % Word32)

\* an optional field that is absent (undefined)
Undefined == -3000000

\* the one element of a set of one element: {e : x \in {v}} computes v once
\* for all the places of e that use it
TheOne(S) == CHOOSE x \in S : TRUE

\* a ?? b
OrElse(a, b) == IF a # Undefined THEN a ELSE b

\* Uint8Array.prototype.slice(from, to) on an array of len bytes: the number
\* of bytes of the copy (a negative index counts from the end)
SliceIndex(len, k) == IF k < 0 THEN (IF len + k > 0 THEN len + k ELSE 0)
                      ELSE (IF k < len THEN k ELSE len)
SliceLength(len, from, to) ==
    IF SliceIndex(len, to) > SliceIndex(len, from)
    THEN SliceIndex(len, to) - SliceIndex(len, from) ELSE 0

(***************************************************************************)
(* Mp4BoxParser.  A buffer is the sequence of its bytes.  Bytes are scaled *)
(* as the words are: a byte has three bits, so that the four bytes of a    *)
(* 32-bit field make a value below Word32 = 8^4.                           *)
(***************************************************************************)

\* data[k] under << and |: the byte, 0 for undefined (k outside the buffer)
ByteAt(bytes, k) == IF k >= 0 /\ k < Len(bytes) THEN bytes[k + 1] ELSE 0

\* readU32: four bytes, big-endian
readU32(bytes, offset) ==
    ((ByteAt(bytes, offset) * 8 + ByteAt(bytes, offset + 1)) * 8
        + ByteAt(bytes, offset + 2)) * 8 + ByteAt(bytes, offset + 3)

\* readU64: (hi << 32n) | lo
readU64(bytes, offset) == readU32(bytes, offset) * Word32 + readU32(bytes, offset + 4)

\* readType: the four character codes
readType(bytes, offset) == [k \in 1..4 |-> ByteAt(bytes, offset + k - 1)]

\* a box with size32 = 0 taken to the end of the buffer, not of the range
TerminatingSize_ToBufferEnd(bytes, end, offset) == Len(bytes) - offset

\* line 60: the size of a box declared with size32 = 0
TerminatingSize(bytes, end, offset) == end - offset

\* a walk that only stops at a box that overruns the range
StopsWalk_OverrunOnly(size, headerSize, offset, end) == offset + size > end

\* line 63: the box cannot be taken and the walk stops
StopsWalk(size, headerSize, offset, end) == size < headerSize \/ offset + size > end

\* One iteration of the loop of parseBoxes (lines 44-67) at offset: what it
\* does (stop: the loop is left and the list returned; throw; push: a box
\* is pushed and the walk goes on at its end) and the box it pushes.
WalkIteration(bytes, end, offset) ==
    IF offset + 8 > end THEN [do |-> "stop"]
    ELSE TheOne({
        IF size32 = 1 /\ offset + 16 > end THEN [do |-> "stop"]
        ELSE IF size32 = 1 /\ readU64(bytes, offset + 8) > MaxSafeInteger
             THEN [do |-> "throw"]
        ELSE TheOne({
            IF StopsWalk(b.size, b.headerSize, offset, end) THEN [do |-> "stop"]
            ELSE [do |-> "push", box |-> b]
            : b \in {[type |-> readType(bytes, offset + 4),
                      start |-> offset,
                      size |-> IF size32 = 1 THEN readU64(bytes, offset + 8)
                               ELSE IF size32 = 0
                                    THEN TerminatingSize(bytes, end, offset)
                               ELSE size32,
                      headerSize |-> IF size32 = 1 THEN 16 ELSE 8,
                      end |-> offset + (IF size32 = 1 THEN readU64(bytes, offset + 8)
                                        ELSE IF size32 = 0
                                             THEN TerminatingSize(bytes, end, offset)
                                        ELSE size32)]}})
        : size32 \in {readU32(bytes, offset)}})

(***************************************************************************)
(* FragmentParser.  A fragment file is modelled by what parseBoxes and the *)
(* tfhd / tfdt / trun readers decode from its bytes:                       *)
(*   file  = [len, boxes]            len: byte length; boxes: top level    *)
(*   box   = [type, start, headerSize, end, trafs]   (trafs: of a moof)    *)
(*   traf  = [tfhd, tfdt, truns]                                           *)
(*   tfhd  = [present, trackId, baseDataOffset, defaultSampleDuration,     *)
(*            defaultSampleSize, defaultSampleFlags]                       *)
(*   tfdt  = [present, version, baseMediaDecodeTime]                       *)
(*   trun  = [version, dataOffset, firstSampleFlags, samples]              *)
(*   trun sample = [duration, size, flags, ctoBits]                        *)
(* with Undefined for an optional field whose flag bit is clear.           *)
(***************************************************************************)

\* the sample_is_non_sync_sample bit (line 216)
NonSyncBit == 65536

\* isKeyframeFromFlags: (sampleFlags & 0x10000) === 0
isKeyframeFromFlags(sampleFlags) == (sampleFlags \div NonSyncBit) % 2 = 0

\* getSampleFlags with first_sample_flags applied to every sample of the run
getSampleFlags_FirstForAll(i, trun, tfhd, trunSample) ==
    IF trunSample.flags # Undefined THEN trunSample.flags
    ELSE IF trun.firstSampleFlags # Undefined THEN trun.firstSampleFlags
    ELSE IF tfhd.defaultSampleFlags # Undefined THEN tfhd.defaultSampleFlags
    ELSE 0

\* getSampleFlags (i is the 0-based index of the sample in its trun)
getSampleFlags(i, trun, tfhd, trunSample) ==
    IF trunSample.flags # Undefined THEN trunSample.flags
    ELSE IF i = 0 /\ trun.firstSampleFlags # Undefined THEN trun.firstSampleFlags
    ELSE IF tfhd.defaultSampleFlags # Undefined THEN tfhd.defaultSampleFlags
    ELSE 0

\* parseTrun, lines 193-196: the cto field is signed only in version 1
TrunCto(trun, trunSample) ==
    IF trunSample.ctoBits = Undefined THEN Undefined
    ELSE IF trun.version = 1 THEN ToInt32(trunSample.ctoBits)
    ELSE trunSample.ctoBits

\* SampleDuration without the tfhd default
SampleDuration_NoDefault(tfhd, ts) == OrElse(ts.duration, 0)

\* lines 289-294: a per-sample value, else the tfhd default, else 0
SampleDuration(tfhd, ts) == OrElse(ts.duration, OrElse(tfhd.defaultSampleDuration, 0))
SampleSize(tfhd, ts) == OrElse(ts.size, OrElse(tfhd.defaultSampleSize, 0))

\* OutsideMdat without the test of the end of the range
OutsideMdat_StartOnly(cursor, size, mdatPayloadStart, mdatPayloadEnd) ==
    cursor < mdatPayloadStart

\* OutsideMdat without the test of the start of the range
OutsideMdat_EndOnly(cursor, size, mdatPayloadStart, mdatPayloadEnd) ==
    cursor + size > mdatPayloadEnd

\* line 302: the byte range of the sample leaves the mdat payload
OutsideMdat(cursor, size, mdatPayloadStart, mdatPayloadEnd) ==
    cursor < mdatPayloadStart \/ cursor + size > mdatPayloadEnd

\* The state of the extraction loops: the samples pushed so far, the running
\* dts and byte cursor, and the error that aborted the parse ("none" if none).
\* The sample loop of one trun (lines 287-322), from sample i (1-based) on.
RECURSIVE TrunSamplesLoop(_, _, _, _, _, _)
TrunSamplesLoop(fileLen, mdat, tfhd, trun, i, st) ==
    IF st.err # "none" \/ i > Len(trun.samples) THEN st
    ELSE LET ts == trun.samples[i]
             duration == SampleDuration(tfhd, ts)
             size == SampleSize(tfhd, ts)
             cto == OrElse(TrunCto(trun, ts), 0)
             sample == [dts |-> st.dts, cts |-> st.dts + cto, duration |-> duration,
                        size |-> size,
                        isKeyframe |-> isKeyframeFromFlags(getSampleFlags(i - 1, trun, tfhd, ts)),
                        data |-> [off |-> st.cursor,
                                  len |-> SliceLength(fileLen, st.cursor, st.cursor + size)],
                        ref |-> 0]
         IN  IF size <= 0 THEN [st EXCEPT !.err = "MissingSampleSize"]
             ELSE IF OutsideMdat(st.cursor, size, mdat.start + mdat.headerSize, mdat.end)
                  THEN [st EXCEPT !.err = "MdatRangeMismatch"]
             ELSE TrunSamplesLoop(fileLen, mdat, tfhd, trun, i + 1,
                    [st EXCEPT !.out = Append(@, sample),
                               !.cursor = @ + size,
                               !.dts = @ + (IF duration > 0 THEN duration ELSE 0)])

RECURSIVE SumSizes(_, _)
SumSizes(tfhd, trunSamples) ==
    IF Len(trunSamples) = 0 THEN 0
    ELSE SampleSize(tfhd, Head(trunSamples)) + SumSizes(tfhd, Tail(trunSamples))

\* a parser that takes the fallback whether the option allows it or not
DataStart_FallbackAlways(moof, mdat, tfhd, trun, allowTrunDataOffsetFallback) ==
    IF trun.dataOffset # Undefined
    THEN [err |-> "none", at |-> OrElse(tfhd.baseDataOffset, moof.start) + trun.dataOffset]
    ELSE [err |-> "none",
          at |-> IF tfhd.baseDataOffset # Undefined THEN moof.end
                 ELSE mdat.start + mdat.headerSize]

\* lines 274-282: where the bytes of a run start, or the error
DataStart(moof, mdat, tfhd, trun, allowTrunDataOffsetFallback) ==
    IF trun.dataOffset # Undefined
    THEN LET v == OrElse(tfhd.baseDataOffset, moof.start) + trun.dataOffset
         IN  IF v > MaxSafeInteger THEN [err |-> "IntegerTooLargeForNumber", at |-> 0]
             ELSE [err |-> "none", at |-> v]
    ELSE IF ~allowTrunDataOffsetFallback THEN [err |-> "MissingTrunDataOffset", at |-> 0]
    ELSE [err |-> "none",
          at |-> IF tfhd.baseDataOffset # Undefined THEN moof.end
                 ELSE mdat.start + mdat.headerSize]

\* the loop over the truns of one traf (lines 271-346), from run r on
RECURSIVE TrunsLoop(_, _, _, _, _, _, _)
TrunsLoop(fileLen, moof, mdat, tfhd, truns, r, st) ==
    IF st.err # "none" \/ r > Len(truns) THEN st
    ELSE LET trun == truns[r]
             ds == DataStart(moof, mdat, tfhd, trun, st.fallback)
         IN  IF ds.err # "none" THEN [st EXCEPT !.err = ds.err]
             ELSE TheOne({
                  LET sumSizes == SumSizes(tfhd, trun.samples)
                  IN  IF after.err # "none" THEN after
                      ELSE IF sumSizes <= 0 THEN [after EXCEPT !.err = "UnresolvedSampleSizes"]
                      ELSE IF after.cursor # ds.at + sumSizes
                           THEN [after EXCEPT !.err = "SizesDoNotSum"]
                      ELSE TrunsLoop(fileLen, moof, mdat, tfhd, truns, r + 1, after)
                  : after \in {TrunSamplesLoop(fileLen, mdat, tfhd, trun, 1,
                                               [st EXCEPT !.cursor = ds.at])}})

\* the loop over the trafs of one moof (lines 242-347), from traf k on
RECURSIVE TrafsLoop(_, _, _, _, _, _)
TrafsLoop(fileLen, moof, mdat, trackId, k, st) ==
    IF st.err # "none" \/ k > Len(moof.trafs) THEN st
    ELSE LET traf == moof.trafs[k]
         IN  IF ~traf.tfhd.present \/ traf.tfhd.trackId # trackId
             THEN TrafsLoop(fileLen, moof, mdat, trackId, k + 1, st)
             ELSE IF ~traf.tfdt.present THEN [st EXCEPT !.err = "MissingTfdt"]
             ELSE IF traf.tfdt.version \notin {0, 1}
                  THEN [st EXCEPT !.err = "UnsupportedTfdtVersion"]
             ELSE IF traf.tfdt.baseMediaDecodeTime > MaxSafeInteger
                  THEN [st EXCEPT !.err = "IntegerTooLargeForNumber"]
             ELSE IF Len(traf.truns) = 0 THEN [st EXCEPT !.err = "MissingTrun"]
             ELSE TrafsLoop(fileLen, moof, mdat, trackId, k + 1,
                    TrunsLoop(fileLen, moof, mdat, traf.tfhd, traf.truns, 1,
                              [st EXCEPT !.dts = traf.tfdt.baseMediaDecodeTime]))

\* extractSamplesFromMoofMdat: [err, out]
extractSamplesFromMoofMdat(fileLen, moof, mdat, trackId, allowTrunDataOffsetFallback) ==
    TheOne({[err |-> st.err, out |-> st.out] : st \in
        {TrafsLoop(fileLen, moof, mdat, trackId, 1,
                   [err |-> "none", out |-> << >>, dts |-> 0, cursor |-> 0,
                    fallback |-> allowTrunDataOffsetFallback])}})

\* lines 51-63: the mdat paired with the moof at index i: the first mdat
\* after it and before the next moof (0 if there is none)
RECURSIVE MdatAfter(_, _)
MdatAfter(boxes, j) ==
    IF j > Len(boxes) THEN 0
    ELSE IF boxes[j].type = "mdat" THEN j
    ELSE IF boxes[j].type = "moof" THEN 0
    ELSE MdatAfter(boxes, j + 1)

\* the moof/mdat pairs, as pairs of indices into boxes, left to right
RECURSIVE PairsFrom(_, _)
PairsFrom(boxes, i) ==
    IF i > Len(boxes) THEN << >>
    ELSE IF boxes[i].type = "moof" /\ MdatAfter(boxes, i + 1) # 0
         THEN << <<i, MdatAfter(boxes, i + 1)>> >> \o PairsFrom(boxes, i + 1)
         ELSE PairsFrom(boxes, i + 1)

\* a stitching that moves the decode times and leaves the composition times
RECURSIVE AppendShifted_DtsOnly(_, _, _, _)
AppendShifted_DtsOnly(raw, i, intraOffset, st) ==
    IF i > Len(raw) THEN st
    ELSE LET s == [raw[i] EXCEPT !.dts = @ + intraOffset]
             end == s.dts + (IF s.duration > 0 THEN s.duration ELSE 0)
         IN  AppendShifted_DtsOnly(raw, i + 1, intraOffset,
                [out |-> Append(st.out, s),
                 lastEnd |-> IF end > st.lastEnd THEN end ELSE st.lastEnd])

\* lines 85-91: the samples of one pair shifted by intraOffset and appended;
\* st = [out, lastEnd]
RECURSIVE AppendShifted(_, _, _, _)
AppendShifted(raw, i, intraOffset, st) ==
    IF i > Len(raw) THEN st
    ELSE LET s == [raw[i] EXCEPT !.dts = @ + intraOffset, !.cts = @ + intraOffset]
             end == s.dts + (IF s.duration > 0 THEN s.duration ELSE 0)
         IN  AppendShifted(raw, i + 1, intraOffset,
                [out |-> Append(st.out, s),
                 lastEnd |-> IF end > st.lastEnd THEN end ELSE st.lastEnd])

\* the loop over the pairs in parse (lines 75-92), from pair k on;
\* st = [err, out, lastEnd, intraOffset]
RECURSIVE PairsLoop(_, _, _, _, _, _)
PairsLoop(file, pairs, trackId, fallback, k, st) ==
    IF st.err # "none" \/ k > Len(pairs) THEN st
    ELSE TheOne({
             IF r.err # "none" THEN [st EXCEPT !.err = r.err, !.out = << >>]
             ELSE IF Len(r.out) = 0 THEN PairsLoop(file, pairs, trackId, fallback, k + 1, st)
             ELSE LET intraOffset == IF r.out[1].dts + st.intraOffset < st.lastEnd
                                     THEN st.lastEnd - r.out[1].dts
                                     ELSE st.intraOffset
                  IN  TheOne({
                        PairsLoop(file, pairs, trackId, fallback, k + 1,
                           [st EXCEPT !.out = app.out, !.lastEnd = app.lastEnd,
                                      !.intraOffset = intraOffset])
                        : app \in {AppendShifted(r.out, 1, intraOffset,
                                       [out |-> st.out, lastEnd |-> st.lastEnd])}})
             : r \in {extractSamplesFromMoofMdat(file.len, file.boxes[pairs[k][1]],
                          file.boxes[pairs[k][2]], trackId, fallback)}})

\* FragmentParser.parse: [err, out]; a parse that throws returns no samples
parse(file, trackId, allowTrunDataOffsetFallback) ==
    IF \A i \in 1..Len(file.boxes) : file.boxes[i].type # "moof"
    THEN [err |-> "NoMoof", out |-> << >>]
    ELSE TheOne({
             IF Len(pairs) = 0 THEN [err |-> "MoofWithoutMdat", out |-> << >>]
             ELSE TheOne({[err |-> st.err, out |-> st.out] : st \in
                     {PairsLoop(file, pairs, trackId, allowTrunDataOffsetFallback, 1,
                                [err |-> "none", out |-> << >>,
                                 lastEnd |-> 0, intraOffset |-> 0])}})
             : pairs \in {PairsFrom(file.boxes, 1)}})

(***************************************************************************)
(* Mp4Builder.  A box is modelled by its byte length (len) and the values  *)
(* of the fields the builder computes; the constant fields (matrices,      *)
(* reserved words, handler name) only count in len.                        *)
(***************************************************************************)

\* box(): an 8-byte header before the payload; fullBox(): 4 more bytes of
\* version and flags
BoxLen(payloadLen) == 8 + payloadLen
FullBoxLen(payloadLen) == BoxLen(4 + payloadLen)

\* rle(values): runs of equal adjacent values; the loop from value i on,
\* out being the runs so far
RECURSIVE RleLoop(_, _, _)
RleLoop(values, i, out) ==
    IF i > Len(values) THEN out
    ELSE IF Len(out) > 0 /\ out[Len(out)].value = values[i]
         THEN RleLoop(values, i + 1, [out EXCEPT ![Len(out)].count = @ + 1])
         ELSE RleLoop(values, i + 1, Append(out, [count |-> 1, value |-> values[i]]))

rle(values) == RleLoop(values, 1, << >>)

mvhd(timescale, duration) ==
    [len |-> FullBoxLen(4 + 4 + 4 + 4 + 4 + 2 + 2 + 8 + 36 + 24 + 4),
     timescale |-> ToUint32(timescale), duration |-> ToUint32(duration)]

tkhd(trackId, duration) ==
    [len |-> FullBoxLen(4 + 4 + 4 + 4 + 4 + 8 + 2 + 2 + 2 + 2 + 36 + 4 + 4),
     trackId |-> ToUint32(trackId), duration |-> ToUint32(duration)]

mdhd(timescale, duration) ==
    [len |-> FullBoxLen(4 + 4 + 4 + 4 + 2 + 2),
     timescale |-> ToUint32(timescale), duration |-> ToUint32(duration)]

\* hdlr('vide', 'VideoHandler'): the name is written with a closing NUL
hdlrLen == FullBoxLen(4 + 4 + 12 + 13)
vmhdLen == FullBoxLen(2 + 2 + 2 + 2)
\* dref() holds one empty 'url ' full box after its entry count
drefLen == FullBoxLen(4 + FullBoxLen(0))
stscLen == FullBoxLen(4 + 12)
\* minimalFtyp(): major brand, minor version, four compatible brands
minimalFtypLen == BoxLen(4 + 4 + 4 * 4)

sttsBox(durations) ==
    LET entries == rle(durations)
    IN  [len |-> FullBoxLen(4 + Len(entries) * 8),
         entries |-> [k \in 1..Len(entries) |->
                        [count |-> ToUint32(entries[k].count),
                         value |-> ToUint32(entries[k].value)]]]

\* a ctts that is always written as version 0
cttsBox_Version0(offsets) ==
    IF \A i \in 1..Len(offsets) : offsets[i] = 0
    THEN [present |-> FALSE, len |-> 0, version |-> 0, entries |-> << >>]
    ELSE [present |-> TRUE,
          len |-> FullBoxLen(4 + Len(rle(offsets)) * 8),
          version |-> 0,
          entries |-> [k \in 1..Len(rle(offsets)) |->
                         [count |-> ToUint32(rle(offsets)[k].count),
                          value |-> ToUint32(rle(offsets)[k].value)]]]

\* cttsBox(offsets): null (present = FALSE) when every offset is zero
cttsBox(offsets) ==
    IF \A i \in 1..Len(offsets) : offsets[i] = 0
    THEN [present |-> FALSE, len |-> 0, version |-> 0, entries |-> << >>]
    ELSE LET entries == rle(offsets)
         IN  [present |-> TRUE,
              len |-> FullBoxLen(4 + Len(entries) * 8),
              version |-> IF \E i \in 1..Len(offsets) : offsets[i] < 0 THEN 1 ELSE 0,
              entries |-> [k \in 1..Len(entries) |->
                             [count |-> ToUint32(entries[k].count),
                              value |-> ToUint32(entries[k].value)]]]

\* stssBox(syncSampleNumbers): null when there is no sync sample
stssBox(syncSampleNumbers) ==
    IF Len(syncSampleNumbers) = 0
    THEN [present |-> FALSE, len |-> 0, entries |-> << >>]
    ELSE [present |-> TRUE,
          len |-> FullBoxLen(4 + Len(syncSampleNumbers) * 4),
          entries |-> [k \in 1..Len(syncSampleNumbers) |-> ToUint32(syncSampleNumbers[k])]]

stszBox(sizes) ==
    [len |-> FullBoxLen(4 + 4 + Len(sizes) * 4),
     entries |-> [k \in 1..Len(sizes) |-> ToUint32(sizes[k])]]

\* stcoBox(offsets, useCo64): 8-byte entries in co64, 4-byte entries in stco
stcoBox(offsets, useCo64) ==
    [type |-> IF useCo64 THEN "co64" ELSE "stco",
     len |-> FullBoxLen(4 + (IF useCo64 THEN Len(offsets) * 8 ELSE Len(offsets) * 4)),
     entries |-> [k \in 1..Len(offsets) |->
                    IF useCo64 THEN ToUint64(offsets[k]) ELSE ToUint32(offsets[k])]]

\* stbl .. moov: each container is its children behind a box header
stblLen(stsdLen, stts, ctts, stss, stsz, stco) ==
    BoxLen(stsdLen + stts.len + ctts.len + stss.len + stscLen + stsz.len + stco.len)
minfLen(stbl) == BoxLen(vmhdLen + BoxLen(drefLen) + stbl)
mdiaLen(mdhdBox, minf) == BoxLen(mdhdBox.len + hdlrLen + minf)
trakLen(tkhdBox, mdia) == BoxLen(tkhdBox.len + mdia)
moovLen(mvhdBox, trak) == BoxLen(mvhdBox.len + trak)

\* sync sample numbers counted from 0
RECURSIVE SyncSamples_ZeroBased(_, _)
SyncSamples_ZeroBased(samples, i) ==
    IF i > Len(samples) THEN << >>
    ELSE (IF samples[i].isKeyframe THEN <<i - 1>> ELSE << >>)
            \o SyncSamples_ZeroBased(samples, i + 1)

\* the syncSamples of lines 312-315: the 1-based numbers of the keyframes
RECURSIVE SyncSamples(_, _)
SyncSamples(samples, i) ==
    IF i > Len(samples) THEN << >>
    ELSE (IF samples[i].isKeyframe THEN <<i>> ELSE << >>) \o SyncSamples(samples, i + 1)

\* a.reduce((a, b) => a + b, 0)
RECURSIVE SumSeq(_)
SumSeq(values) == IF Len(values) = 0 THEN 0 ELSE Head(values) + SumSeq(Tail(values))

\* ChunkOffsetsBig with a run that never advances
ChunkOffsetsBig_NoRun(firstData, samples) ==
    [i \in 1..Len(samples) |-> firstData]

\* lines 355-360: the chunk offset of each sample, from the first data byte
ChunkOffsetsBig(firstData, samples) ==
    [i \in 1..Len(samples) |->
        firstData + SumSeq([j \in 1..(i - 1) |-> samples[j].data.len])]

\* chunkOffsetsBig.reduce((m, o) => o > m ? o : m, 0n), from value i on
RECURSIVE MaxLoop(_, _, _)
MaxLoop(values, i, m) ==
    IF i > Len(values) THEN m
    ELSE MaxLoop(values, i + 1, IF values[i] > m THEN values[i] ELSE m)

MaxOf(values) == MaxLoop(values, 1, 0)

\* a builder that never promotes the table
ShouldUseCo64_Never(chunkOffsetsBig) == FALSE

\* ShouldUseCo64 looking at the first offset only
ShouldUseCo64_FirstOffset(chunkOffsetsBig) == chunkOffsetsBig[1] >= Word32

\* the test that promotes the chunk offset table to co64 (line 363)
ShouldUseCo64(chunkOffsetsBig) == MaxOf(chunkOffsetsBig) >= Word32

\* lines 303-329 and 334-343: what build derives from the samples before it
\* knows the chunk offsets
SampleTables(config, samples) ==
    LET durations == [i \in 1..Len(samples) |-> samples[i].duration]
        offsets == [i \in 1..Len(samples) |-> samples[i].cts - samples[i].dts]
        sizes == [i \in 1..Len(samples) |-> samples[i].size]
        trackDuration == SumSeq(durations)
        mdatDataLen == SumSeq([i \in 1..Len(samples) |-> samples[i].data.len])
        needsLargeMdat == 8 + mdatDataLen > Word32 - 1
    IN  [ftypLen |-> OrElse(config.ftypLen, minimalFtypLen),
         stts |-> sttsBox(durations),
         ctts |-> cttsBox(offsets),
         stss |-> stssBox(SyncSamples(samples, 1)),
         stsz |-> stszBox(sizes),
         mvhd |-> mvhd(config.timescale, trackDuration),
         tkhd |-> tkhd(config.trackId, trackDuration),
         mdhd |-> mdhd(config.timescale, trackDuration),
         mdatData |-> [i \in 1..Len(samples) |-> samples[i].data],
         mdatDataLen |-> mdatDataLen,
         needsLargeMdat |-> needsLargeMdat,
         mdatHeaderSize |-> IF needsLargeMdat THEN 16 ELSE 8]

\* the length of the moov built around a chunk offset box (lines 345-351)
MoovWith(config, tables, stco) ==
    moovLen(tables.mvhd, trakLen(tables.tkhd, mdiaLen(tables.mdhd,
        minfLen(stblLen(config.stsdLen, tables.stts, tables.ctts, tables.stss,
                        tables.stsz, stco)))))

\* keyframe times taken from the composition time
IdrTimestamps_Cts(config, samples) ==
    [k \in 1..Len(SelectSeq(samples, LAMBDA x : x.isKeyframe)) |->
        [num |-> SelectSeq(samples, LAMBDA x : x.isKeyframe)[k].cts,
         den |-> config.timescale]]

\* lines 305-307: the keyframes' s.dts / config.timescale, each kept as the
\* fraction num / den
IdrTimestamps(config, samples) ==
    [k \in 1..Len(SelectSeq(samples, LAMBDA x : x.isKeyframe)) |->
        [num |-> SelectSeq(samples, LAMBDA x : x.isKeyframe)[k].dts,
         den |-> config.timescale]]

\* One pass of the loop of build (lines 331-404) and the passes after it.
RECURSIVE BuildPass(_, _, _, _)
BuildPass(config, samples, pass, useCo64) ==
    IF pass >= 2 THEN [err |-> "FailedToBuild"]
    ELSE TheOne({
        LET placeholder == stcoBox([i \in 1..Len(samples) |-> 0], useCo64)
            mdatStart == tables.ftypLen + MoovWith(config, tables, placeholder)
            firstData == mdatStart + tables.mdatHeaderSize
        IN  TheOne({
            IF pass = 0 /\ ShouldUseCo64(chunkOffsetsBig) /\ ~useCo64
            THEN BuildPass(config, samples, pass + 1, TRUE)
            ELSE IF ~useCo64 /\ \E i \in 1..Len(samples) : chunkOffsetsBig[i] >= Word32
                 THEN [err |-> "ChunkOffsetOverflow"]
            ELSE IF ~useCo64 /\ \E i \in 1..Len(samples) :
                                    chunkOffsetsBig[i] > MaxSafeInteger
                 THEN [err |-> "IntegerTooLargeForNumber"]
            ELSE [err |-> "none",
                  passes |-> pass + 1,
                  ftypLen |-> tables.ftypLen,
                  moovLen |-> MoovWith(config, tables, stcoBox(chunkOffsetsBig, useCo64)),
                  mvhd |-> tables.mvhd, tkhd |-> tables.tkhd, mdhd |-> tables.mdhd,
                  stts |-> tables.stts, ctts |-> tables.ctts,
                  stss |-> tables.stss, stsz |-> tables.stsz,
                  stco |-> stcoBox(chunkOffsetsBig, useCo64),
                  mdatHeaderSize |-> tables.mdatHeaderSize,
                  mdatSizeField |-> IF tables.needsLargeMdat
                                    THEN ToUint64(16 + tables.mdatDataLen)
                                    ELSE ToUint32(8 + tables.mdatDataLen),
                  mdatData |-> tables.mdatData,
                  mdatDataLen |-> tables.mdatDataLen,
                  byteLength |-> tables.ftypLen
                                 + MoovWith(config, tables,
                                            stcoBox(chunkOffsetsBig, useCo64))
                                 + tables.mdatHeaderSize + tables.mdatDataLen,
                  idrTimestamps |-> IdrTimestamps(config, samples)]
            : chunkOffsetsBig \in {ChunkOffsetsBig(firstData, samples)}})
        : tables \in {SampleTables(config, samples)}})

\* Mp4Builder.build(config, samples)
build(config, samples) ==
    IF Len(samples) = 0 THEN [err |-> "EmptySampleList"]
    ELSE BuildPass(config, samples, 0, FALSE)

(***************************************************************************)
(* State                                                                   *)
(***************************************************************************)
VARIABLES
    pc,               \* where the caller / the pipeline stands
    api,              \* the entry point that was called
    opts,             \* the options of the call (FlattenOptions, preserveOrder)
    config,           \* the TrackConfig the init segment gave
    fragments,        \* the fragment files parsed so far, in input order
    perFileSamples,   \* the Sample lists handed to the normalizer, one per file
    normalized,       \* the Sample list the normalizer returned
    discontinuityDetected,  \* the flag the normalizer returned
    built,            \* what Mp4Builder.build returned
    err,              \* the error that ended the call ("none" if none)
    buffers,          \* the input buffers handed to splitInitAndFragments
    init,             \* the init segment splitInitAndFragments found
    fileDuration,     \* the fileDuration inferDurationsWithinFile returned
    data,             \* the bytes handed to parseBoxes
    range,            \* the start and end handed to parseBoxes
    off,              \* parseBoxes: the offset its loop has reached
    boxes             \* parseBoxes: the Box list it has filled / returned

vars == <<pc, api, opts, config, fragments, perFileSamples, normalized,
          discontinuityDetected, built, err, buffers, init, fileDuration,
          data, range, off, boxes>>

\* what only splitInitAndFragments reads and writes
splitVars == <<buffers, init>>

\* what only a call of parseBoxes reads and writes
boxVars == <<data, range, off, boxes>>

\* no call of parseBoxes yet
NoBoxCall ==
    data = << >> /\ range = [start |-> 0, end |-> 0] /\ off = 0 /\ boxes = << >>

\* a buffer as splitInitAndFragments sees it: which of moov and moof its
\* top-level boxes hold; id is its place in the input (0: no buffer, null)
NoBuffer == [id |-> 0, moov |-> FALSE, moof |-> FALSE]

\* FlattenOptions.normalizeAcrossFiles: true, false, or left out
OptionValues == {"unset", "true", "false"}

\* opts.normalizeAcrossFiles ?? true (line 499)
NormalizeAcrossFilesOf(o) == o.normalizeAcrossFiles # "false"

\* !this.opts.allowTrunDataOffsetFallback (FragmentParser.ts line 277): the
\* fallback is on only when the option is there and true
AllowTrunDataOffsetFallbackOf(o) == o.allowTrunDataOffsetFallback = "true"

NoOpts == [normalizeAcrossFiles |-> "unset", allowTrunDataOffsetFallback |-> "unset",
           preserveOrder |-> FALSE]

\* a TrackConfig: what the builder and the fragment parser read of it
NoConfig == [trackId |-> 1, timescale |-> 1000, stsdLen |-> 16, ftypLen |-> Undefined]
NotBuilt == [err |-> "notbuilt"]

(***************************************************************************)
(* SpecNorm: a caller builds Sample lists and calls the normalizer.        *)
(***************************************************************************)

\* The timestamps <<dts, cts, duration>> a caller may put in a Sample: the
\* ordinary cases (cts at, before or after dts; duration zero or not), and
\* each field in turn negative or non-finite.
CallerTimes ==
    {<<0, 0, 0>>, <<0, 0, 2>>, <<2, 0, 2>>, <<2, 3, 0>>, <<2, 3, 2>>}
        \cup {<<0 - 1, 0, 2>>, <<NaN, 0, 2>>, <<PInf, 0, 2>>,
              <<0, NaN, 2>>, <<2, 0 - 1, 2>>,
              <<2, 3, NaN>>, <<2, 3, 0 - 1>>}

\* the k-th Sample a caller makes: its payload is one byte, tagged k
CallerSample(t, k) ==
    [dts |-> t[1], cts |-> t[2], duration |-> t[3],
     size |-> 1, isKeyframe |-> (k = 1), data |-> [off |-> k, len |-> 1], ref |-> k]

RECURSIVE Flatten(_)
Flatten(files) ==
    IF Len(files) = 0 THEN << >> ELSE Head(files) \o Flatten(Tail(files))

InitNorm ==
    /\ pc = "input"
    /\ api = "none"
    /\ opts = NoOpts
    /\ config = NoConfig
    /\ fragments = << >>
    /\ perFileSamples = << << >> >>
    /\ normalized = << >>
    /\ discontinuityDetected = FALSE
    /\ built = NotBuilt
    /\ err = "none"
    /\ buffers = << >>
    /\ init = NoBuffer
    /\ fileDuration = 0
    /\ NoBoxCall

\* the caller appends a Sample to the file it is filling
PushSample ==
    /\ pc = "input"
    /\ Len(Flatten(perFileSamples)) < MaxSamples
    /\ \E t \in CallerTimes :
         LET f == Len(perFileSamples)
             s == CallerSample(t, Len(Flatten(perFileSamples)) + 1)
         IN  perFileSamples' = [perFileSamples EXCEPT ![f] = Append(@, s)]
    /\ UNCHANGED splitVars
    /\ UNCHANGED <<fileDuration, boxVars>>
    /\ UNCHANGED <<pc, api, opts, config, fragments, normalized, discontinuityDetected, built, err>>

\* the caller closes the file it has filled and starts the next one (an empty
\* file can so only be the last one)
NewFile ==
    /\ pc = "input"
    /\ Len(perFileSamples) < MaxFiles
    /\ Len(perFileSamples[Len(perFileSamples)]) > 0
    /\ perFileSamples' = Append(perFileSamples, << >>)
    /\ UNCHANGED splitVars
    /\ UNCHANGED <<fileDuration, boxVars>>
    /\ UNCHANGED <<pc, api, opts, config, fragments, normalized, discontinuityDetected, built, err>>

\* normalizer.normalize(samples, {preserveOrder}) on a single list
CallNormalize ==
    /\ pc = "input"
    /\ Len(perFileSamples) = 1
    /\ \E preserveOrder \in BOOLEAN :
         \E r \in normalize(perFileSamples[1], preserveOrder) :
            /\ opts' = [opts EXCEPT !.preserveOrder = preserveOrder]
            /\ normalized' = r.samples
            /\ discontinuityDetected' = r.discontinuityDetected
            /\ perFileSamples' = CallerAfter(perFileSamples, <<r.samples>>)
    /\ api' = "normalize"
    /\ pc' = "returned"
    /\ UNCHANGED splitVars
    /\ UNCHANGED <<fileDuration, boxVars>>
    /\ UNCHANGED <<config, fragments, built, err>>

\* normalizer.normalizeFragments(fragmentsSamples, opts)
CallNormalizeFragments ==
    /\ pc = "input"
    /\ \E across \in OptionValues :
         \E r \in {normalizeFragments(perFileSamples,
                     NormalizeAcrossFilesOf([opts EXCEPT !.normalizeAcrossFiles = across]))} :
             /\ opts' = [opts EXCEPT !.normalizeAcrossFiles = across,
                                     !.preserveOrder = TRUE]
             /\ normalized' = r.samples
             /\ discontinuityDetected' = r.discontinuityDetected
             /\ \E allSamples \in {CrossFileOffset(perFileSamples,
                     NormalizeAcrossFilesOf([opts EXCEPT !.normalizeAcrossFiles = across]))} :
                   perFileSamples' = CallerAfter(perFileSamples, <<allSamples, r.samples>>)
    /\ api' = "normalizeFragments"
    /\ pc' = "returned"
    /\ UNCHANGED splitVars
    /\ UNCHANGED <<fileDuration, boxVars>>
    /\ UNCHANGED <<config, fragments, built, err>>

NextNorm == PushSample \/ NewFile \/ CallNormalize \/ CallNormalizeFragments

SpecNorm == InitNorm /\ [][NextNorm]_vars

(***************************************************************************)
(* Claims about the normalizer                                             *)
(***************************************************************************)
Returned == pc = "returned"

\* the caller's input as one list, in file order
InputList == Flatten(perFileSamples)

\* C1: the list normalize / normalizeFragments returns is in monotonic
\* decode order: every returned dts is a finite number and, for every
\* i > 1, normalized[i].dts >= normalized[i-1].dts, whatever the input was.
C1_MonotonicDts ==
    Returned =>
        /\ \A i \in 1..Len(normalized) : IsFinite(normalized[i].dts)
        /\ \A i \in 2..Len(normalized) : normalized[i].dts >= normalized[i - 1].dts

\* C1 witness: a call returned a list whose input was out of decode order
C1_Witness ==
    /\ Returned
    /\ Len(normalized) >= 2
    /\ \E i \in 2..Len(InputList) :
         /\ IsFinite(InputList[i].dts) /\ IsFinite(InputList[i - 1].dts)
         /\ InputList[i].dts < InputList[i - 1].dts

\* C2: every returned sample has a finite cts with cts >= dts.
C2_CtsNotBeforeDts ==
    Returned =>
        \A i \in 1..Len(normalized) :
            /\ IsFinite(normalized[i].cts)
            /\ normalized[i].cts >= normalized[i].dts

\* C2 witness: a call returned a sample whose input cts was before its dts
C2_Witness ==
    /\ Returned
    /\ api = "normalizeFragments"
    /\ \E i \in 1..Len(InputList) :
         /\ IsFinite(InputList[i].dts) /\ IsFinite(InputList[i].cts)
         /\ 0 <= InputList[i].cts /\ InputList[i].cts < InputList[i].dts


\* a file whose samples follow each other without a gap: ordinary timestamps
\* and every sample starting where the one before it ends
GapFree(file) ==
    /\ Len(file) > 0
    /\ \A i \in 1..Len(file) :
         /\ IsFinite(file[i].dts) /\ IsFinite(file[i].cts) /\ IsFinite(file[i].duration)
         /\ file[i].dts >= 0 /\ file[i].cts >= file[i].dts /\ file[i].duration > 0
    /\ \A i \in 1..(Len(file) - 1) : file[i + 1].dts = file[i].dts + file[i].duration

\* the position in the returned list of the first sample of file k
FileStart(k) == Len(Flatten(SubSeq(perFileSamples, 1, k - 1))) + 1

\* C4: with normalizeAcrossFiles true (or left out) the timelines of gap-free
\* files concatenate: the first sample of file k+1 is returned with a dts
\* equal to dts + duration of the last sample of file k, whatever dts each
\* file starts at.
C4_FilesConcatenate ==
    ( /\ Returned
      /\ api = "normalizeFragments"
      /\ NormalizeAcrossFilesOf(opts)
      /\ \A f \in 1..Len(perFileSamples) : GapFree(perFileSamples[f]) )
    => \A k \in 1..(Len(perFileSamples) - 1) :
          LET first == FileStart(k + 1)
          IN  normalized[first].dts
                = normalized[first - 1].dts + normalized[first - 1].duration

\* C10: when the timeline handed to normalizeFragments holds a zero-duration
\* sample whose gap to the next sample's dts exceeds 1, the result carries
\* discontinuityDetected = true.
C10_DiscontinuitySignalled ==
    ( /\ Returned
      /\ api = "normalizeFragments"
      /\ \E i \in 1..(Len(InputList) - 1) :
           /\ InputList[i].duration = 0
           /\ IsFinite(InputList[i].dts) /\ IsFinite(InputList[i + 1].dts)
           /\ InputList[i + 1].dts - InputList[i].dts > 1 )
    => discontinuityDetected


(***************************************************************************)
(* The flatten pipeline (flattenFmp4ToMp4WithOptions): every fragment is   *)
(* parsed, the per-file lists are normalized, the result is built.         *)
(***************************************************************************)

\* bytes of a moof holding one traf with one trun of n samples (mfhd, tfhd
\* with three defaults, tfdt version 1, trun with four fields per sample)
MoofBytes(n) == 8 + 16 + 8 + 28 + 20 + (20 + 16 * n)

\* A fragment file of one moof and one mdat, with one traf of the track and
\* one version-1 trun.  The trun samples carry duration, size and cto; the
\* first sample is marked sync by first_sample_flags, the others non-sync by
\* the tfhd default.  The mdat payload is exactly the samples' bytes and
\* data_offset points at its first byte, moved by shift bytes.
FragmentFile(tfdt, trunSamples, firstSampleFlags, shift) ==
    LET n == Len(trunSamples)
        payload == SumSeq([i \in 1..n |-> OrElse(trunSamples[i].size, 0)])
        moofEnd == MoofBytes(n)
        mdatEnd == moofEnd + 8 + payload
    IN  [len |-> mdatEnd,
         boxes |-> <<
            [type |-> "moof", start |-> 0, headerSize |-> 8, end |-> moofEnd,
             trafs |-> << [tfhd |-> [present |-> TRUE, trackId |-> 1,
                                     baseDataOffset |-> Undefined,
                                     defaultSampleDuration |-> Undefined,
                                     defaultSampleSize |-> Undefined,
                                     defaultSampleFlags |-> NonSyncBit],
                           tfdt |-> [present |-> TRUE, version |-> 1,
                                     baseMediaDecodeTime |-> tfdt],
                           truns |-> << [version |-> 1,
                                         dataOffset |-> moofEnd + 8 + shift,
                                         firstSampleFlags |-> firstSampleFlags,
                                         samples |-> trunSamples] >>] >>],
            [type |-> "mdat", start |-> moofEnd, headerSize |-> 8, end |-> mdatEnd,
             trafs |-> << >>] >>]

\* SpecPipe: trun samples that vary in duration and composition offset
\* (0, +1000 and -1000 as a 32-bit field), of three or two bytes
TimelineTrunSamples ==
    {[duration |-> d, size |-> IF c = 0 THEN 3 ELSE 2, flags |-> Undefined, ctoBits |-> c] :
        d \in {0, 1000}, c \in {0, 1000, ToUint32(0 - 1000)}}

\* the fragment files SpecPipe draws from, with n trun samples: decode times
\* from 0 or 3000, the data_offset right or one byte late, and one file
\* whose sample has no size anywhere
TimelineFragments(n) ==
    {FragmentFile(tfdt, ts, 0, shift) :
        tfdt \in {0, 3000}, ts \in [1..n -> TimelineTrunSamples], shift \in {0, 1}}
    \cup {FragmentFile(0, [i \in 1..n |-> [duration |-> 1000, size |-> Undefined,
                                           flags |-> Undefined, ctoBits |-> 0]], 0, 0)}

\* the number of trun samples a fragment file announces
TrunSampleCount(file) ==
    SumSeq([b \in 1..Len(file.boxes) |->
        SumSeq([k \in 1..Len(file.boxes[b].trafs) |->
            SumSeq([r \in 1..Len(file.boxes[b].trafs[k].truns) |->
                Len(file.boxes[b].trafs[k].truns[r].samples)])])])

\* fragments.map(parse) (index.ts lines 81-86), one fragment at a time: a
\* parse that throws ends the call
ParseFragment(file) ==
    /\ pc = "parsing"
    /\ Len(fragments) < MaxFiles
    /\ Len(Flatten(perFileSamples)) + TrunSampleCount(file) <= MaxSamples
    /\ \E r \in {parse(file, config.trackId, AllowTrunDataOffsetFallbackOf(opts))} :
           IF r.err # "none"
           THEN /\ pc' = "failed"
                /\ err' = r.err
                /\ UNCHANGED <<fragments, perFileSamples>>
           ELSE /\ fragments' = Append(fragments, file)
                /\ perFileSamples' = Append(perFileSamples, r.out)
                /\ UNCHANGED <<pc, err>>
    /\ UNCHANGED splitVars
    /\ UNCHANGED <<fileDuration, boxVars>>
    /\ UNCHANGED <<api, opts, config, normalized, discontinuityDetected, built>>

\* normalizer.normalizeFragments(perFileSamples, opts) (index.ts line 89)
Normalize ==
    /\ pc = "parsing"
    /\ \E r \in {normalizeFragments(perFileSamples, NormalizeAcrossFilesOf(opts))} :
           /\ normalized' = r.samples
           /\ discontinuityDetected' = r.discontinuityDetected
    /\ pc' = "normalized"
    /\ UNCHANGED splitVars
    /\ UNCHANGED <<fileDuration, boxVars>>
    /\ UNCHANGED <<api, opts, config, fragments, perFileSamples, built, err>>

\* new Mp4Builder().build(config, normalized.samples) and the return
\* (index.ts lines 96-100)
Build ==
    /\ pc = "normalized"
    /\ \E r \in {build(config, normalized)} :
           /\ built' = r
           /\ err' = r.err
           /\ pc' = IF r.err = "none" THEN "built" ELSE "failed"
    /\ UNCHANGED splitVars
    /\ UNCHANGED <<fileDuration, boxVars>>
    /\ UNCHANGED <<api, opts, config, fragments, perFileSamples, normalized,
                   discontinuityDetected>>

\* the TrackConfigs of the model: with and without an ftyp in the init
Configs == {[NoConfig EXCEPT !.ftypLen = f] : f \in {Undefined, 24}}

InitPipe ==
    /\ pc = "parsing"
    /\ api = "flattenFmp4ToMp4WithOptions"
    /\ opts \in {[NoOpts EXCEPT !.normalizeAcrossFiles = a, !.preserveOrder = TRUE] :
                    a \in OptionValues}
    /\ config = NoConfig
    /\ fragments = << >>
    /\ perFileSamples = << >>
    /\ normalized = << >>
    /\ discontinuityDetected = FALSE
    /\ built = NotBuilt
    /\ err = "none"
    /\ buffers = << >>
    /\ init = NoBuffer
    /\ fileDuration = 0
    /\ NoBoxCall

\* the samples the model still lets the input hold
RoomLeft == MaxSamples - Len(Flatten(perFileSamples))

ParseTimelineFragment ==
    /\ pc = "parsing"
    /\ \E n \in 1..RoomLeft : \E file \in TimelineFragments(n) : ParseFragment(file)

NextPipe == ParseTimelineFragment \/ Normalize \/ Build

SpecPipe == InitPipe /\ [][NextPipe]_vars

(***************************************************************************)
(* Claims about the pipeline's timeline and payload                        *)
(***************************************************************************)
Built == pc = "built"

\* the values a run-length table (stts, ctts) stands for, sample by sample
RECURSIVE ExpandRuns(_)
ExpandRuns(entries) ==
    IF Len(entries) = 0 THEN << >>
    ELSE [k \in 1..Head(entries).count |-> Head(entries).value] \o ExpandRuns(Tail(entries))

\* the decode time a player derives from stts for sample i: the durations of
\* the samples before it
SttsDecodeTime(stts, i) == SumSeq(SubSeq(ExpandRuns(stts.entries), 1, i - 1))

\* the composition offset a player reads from ctts for sample i: signed in
\* version 1, and 0 when there is no ctts
CttsOffset(ctts, i) ==
    IF ~ctts.present THEN 0
    ELSE IF ctts.version = 1 THEN ToInt32(ExpandRuns(ctts.entries)[i])
    ELSE ExpandRuns(ctts.entries)[i]

\* the trun of a fragment file that has one moof, one traf and one run
OnlyTrun(file) == file.boxes[1].trafs[1].truns[1]

\* the composition time offsets the trun of the file gives its samples
TrunCtos(file) ==
    [i \in 1..Len(OnlyTrun(file).samples) |->
        OrElse(TrunCto(OnlyTrun(file), OnlyTrun(file).samples[i]), 0)]

\* seed scenario S3: three samples of duration 1000 with composition time
\* offsets 0, -1000, +1000
IsS3(file) ==
    /\ TrunCtos(file) = <<0, 0 - 1000, 1000>>
    /\ \A i \in 1..3 : OnlyTrun(file).samples[i].duration = 1000

\* C3: for the S3 fragment the flattened output has cts[i] = dts[i] + cto[i]
\* for every sample, and a ctts of version 1 that carries the signed offsets
\* 0, -1000, +1000.
C3_BFramesPreserved ==
    (Built /\ Len(fragments) = 1 /\ IsS3(fragments[1])) =>
        /\ \A i \in 1..3 :
             normalized[i].cts = normalized[i].dts + TrunCtos(fragments[1])[i]
        /\ built.ctts.present
        /\ built.ctts.version = 1
        /\ \A i \in 1..3 : CttsOffset(built.ctts, i) = TrunCtos(fragments[1])[i]

\* C7: every sample the FragmentParser emits has data.byteLength = size, and
\* in every flattened output the sizes recorded in stsz add up to the length
\* of the mdat payload, which is the samples' data in decode order.
C7_SizeConservation ==
    /\ \A f \in 1..Len(perFileSamples) : \A i \in 1..Len(perFileSamples[f]) :
          perFileSamples[f][i].data.len = perFileSamples[f][i].size
    /\ Built =>
          /\ SumSeq(built.stsz.entries) = built.mdatDataLen
          /\ built.mdatData = [i \in 1..Len(normalized) |-> normalized[i].data]
          /\ built.mdatDataLen = SumSeq([i \in 1..Len(normalized) |-> normalized[i].data.len])
          /\ \A i \in 2..Len(normalized) : normalized[i].dts >= normalized[i - 1].dts

\* C7 witness: two fragments with samples of different sizes were flattened
C7_Witness ==
    /\ Built
    /\ Len(fragments) = 2
    /\ \E i, j \in 1..Len(normalized) : normalized[i].size # normalized[j].size

\* C9: the decode time a player derives from stts for sample i equals the
\* normalized dts[i] - dts[1], for every sample of the flattened output.
C9_TimelineReproduced ==
    Built =>
        \A i \in 1..Len(normalized) :
            SttsDecodeTime(built.stts, i) = normalized[i].dts - normalized[1].dts


(***************************************************************************)
(* SpecBuild: the pipeline on fragments whose samples are large enough     *)
(* for the chunk offsets and the durations to cross the 32-bit range.      *)
(***************************************************************************)
\* <<duration, size, cto>> of the trun samples: small ones, and ones whose
\* sizes and durations add up beyond the 32-bit range
LargeTimes ==
    {<<1, 4, 0>>, <<1, 4, 1>>, <<1, 3500, 1>>, <<3000, 1760, 0>>, <<3000, 3500, 0>>}

LargeTrunSamples ==
    {[duration |-> t[1], size |-> t[2], flags |-> Undefined, ctoBits |-> t[3]] :
        t \in LargeTimes}

\* fragment files with n large samples; the first sample is sync or not
LargeFragments(n) ==
    {FragmentFile(0, ts, f, 0) : ts \in [1..n -> LargeTrunSamples], f \in {0, NonSyncBit}}

ParseLargeFragment ==
    /\ pc = "parsing"
    /\ \E n \in 1..RoomLeft : \E file \in LargeFragments(n) : ParseFragment(file)

InitBuild ==
    /\ pc = "parsing"
    /\ api = "flattenFmp4ToMp4WithOptions"
    /\ opts = [NoOpts EXCEPT !.preserveOrder = TRUE]
    /\ config \in Configs
    /\ fragments = << >>
    /\ perFileSamples = << >>
    /\ normalized = << >>
    /\ discontinuityDetected = FALSE
    /\ built = NotBuilt
    /\ err = "none"
    /\ buffers = << >>
    /\ init = NoBuffer
    /\ fileDuration = 0
    /\ NoBoxCall

NextBuild == ParseLargeFragment \/ Normalize \/ Build

SpecBuild == InitBuild /\ [][NextBuild]_vars

(***************************************************************************)
(* Claims about the layout of the built file                               *)
(***************************************************************************)

\* the position in the output file of the first byte of sample i: the ftyp,
\* the final moov and the mdat header, then the samples before it
SamplePosition(i) ==
    built.ftypLen + built.moovLen + built.mdatHeaderSize
        + SumSeq([j \in 1..(i - 1) |-> normalized[j].size])

\* C5: in every built file the i-th chunk offset written in stco / co64 is
\* |ftyp| + |final moov| + mdatHeaderSize + the sizes of the samples before
\* sample i, in the stco and in the co64 outcome.
C5_OffsetConsistency ==
    Built =>
        /\ Len(built.stco.entries) = Len(normalized)
        /\ \A i \in 1..Len(normalized) : built.stco.entries[i] = SamplePosition(i)

\* C5 witness: a file built in two passes, with a co64 table and a moov
\* that grew between the passes
C5_Witness ==
    /\ Built
    /\ built.passes = 2
    /\ built.stco.type = "co64"
    /\ Len(normalized) >= 2

\* C6 as stated: stco if the final offset of the first sample is below 2^32;
\* co64 if any chunk offset is 2^32 or more, every offset then written
\* without truncation.
C6_PromotionByFirstOffset ==
    Built =>
        /\ SamplePosition(1) < Word32 => built.stco.type = "stco"
        /\ (\E i \in 1..Len(normalized) : SamplePosition(i) >= Word32) =>
              /\ built.stco.type = "co64"
              /\ \A i \in 1..Len(normalized) : built.stco.entries[i] = SamplePosition(i)

\* C6 amended: build never fails for want of room in stco; it emits stco
\* exactly when every final chunk offset (the last one being the largest) is
\* below 2^32 and co64 exactly when some final chunk offset is 2^32 or more,
\* and in both tables every offset is written without truncation.
C6_PromotionByMaxOffset ==
    /\ err # "ChunkOffsetOverflow"
    /\ Built =>
          /\ built.stco.type = "stco"
                <=> \A i \in 1..Len(normalized) : SamplePosition(i) < Word32
          /\ built.stco.type = "co64"
                <=> \E i \in 1..Len(normalized) : SamplePosition(i) >= Word32
          /\ SamplePosition(Len(normalized)) >= SamplePosition(1)
          /\ \A i \in 1..Len(normalized) : built.stco.entries[i] = SamplePosition(i)

\* C6 witness: a co64 table was emitted although the first sample's final
\* offset is below 2^32
C6_Witness ==
    /\ Built
    /\ built.stco.type = "co64"
    /\ SamplePosition(1) < Word32
    /\ SamplePosition(Len(normalized)) >= Word32

\* C8: the duration written in mvhd, in tkhd and in mdhd equals the sum of
\* the durations of the output samples, also when that sum is 2^32 or more.
C8_DurationSum ==
    Built =>
        /\ built.mvhd.duration = SumSeq([i \in 1..Len(normalized) |-> normalized[i].duration])
        /\ built.tkhd.duration = SumSeq([i \in 1..Len(normalized) |-> normalized[i].duration])
        /\ built.mdhd.duration = SumSeq([i \in 1..Len(normalized) |-> normalized[i].duration])

\* the chunk offsets of the first pass of build: behind the ftyp, the moov
\* with a 32-bit table and the mdat header
FirstPassOffsets ==
    LET tables == SampleTables(config, normalized)
        placeholder == stcoBox([i \in 1..Len(normalized) |-> 0], FALSE)
    IN  ChunkOffsetsBig(tables.ftypLen + MoovWith(config, tables, placeholder)
                            + tables.mdatHeaderSize, normalized)

\* C23: build returns for every non-empty sample list, in one pass or two,
\* never by the 'Failed to build MP4' exit nor with ChunkOffsetOverflow; the
\* table is promoted to co64 at most once (the second pass), which moves
\* every offset up and leaves the largest one at 2^32 or more; in the stco
\* outcome every final offset is below 2^32; and the mdat header size (8 or
\* 16) is the one the mdat bytes alone give, whatever the pass.
C23_Co64Fixpoint ==
    /\ err \notin {"FailedToBuild", "ChunkOffsetOverflow"}
    /\ (built # NotBuilt /\ Len(normalized) > 0) => built.err = "none"
    /\ Built =>
          /\ built.passes \in {1, 2}
          /\ built.passes = 2 <=> built.stco.type = "co64"
          /\ built.stco.type = "co64" =>
                /\ MaxOf(FirstPassOffsets) >= Word32
                /\ \A i \in 1..Len(normalized) :
                       built.stco.entries[i] > FirstPassOffsets[i]
                /\ MaxOf(built.stco.entries) >= Word32
          /\ built.stco.type = "stco" =>
                /\ built.stco.entries = FirstPassOffsets
                /\ \A i \in 1..Len(normalized) : built.stco.entries[i] < Word32
          /\ built.mdatHeaderSize =
                IF 8 + SumSeq([i \in 1..Len(normalized) |-> normalized[i].data.len])
                      > Word32 - 1
                THEN 16 ELSE 8

\* a file built in two passes whose mdat needs the 16-byte header, the
\* first offset of the first pass being below 2^32
C23_Witness ==
    /\ Built
    /\ built.passes = 2
    /\ built.mdatHeaderSize = 16
    /\ FirstPassOffsets[1] < Word32
    /\ built.stco.entries[1] = FirstPassOffsets[1] + 4 * Len(normalized)


(***************************************************************************)
(* SpecParse: a caller hands one fragment file of several moof/mdat pairs  *)
(* to FragmentParser.parse.                                                *)
(***************************************************************************)

\* One moof/mdat pair written at byte `at`.  p says what its traf carries:
\* the track, tfdt, whether tfhd has base_data_offset (the moof's own
\* start) and whether trun has data_offset (relative to that base: the first
\* payload byte), the trun samples, and the bytes the mdat holds beyond the
\* samples (pad).
PairBoxes(p, at) ==
    LET n == Len(p.samples)
        payload == SumSeq([i \in 1..n |-> p.samples[i].size]) + p.pad
        moofEnd == at + MoofBytes(n)
        mdatEnd == moofEnd + 8 + payload
    IN  << [type |-> "moof", start |-> at, headerSize |-> 8, end |-> moofEnd,
            trafs |-> << [tfhd |-> [present |-> TRUE, trackId |-> p.trackId,
                                    baseDataOffset |->
                                        IF p.hasBase THEN at ELSE Undefined,
                                    defaultSampleDuration |-> Undefined,
                                    defaultSampleSize |-> Undefined,
                                    defaultSampleFlags |-> NonSyncBit],
                          tfdt |-> [present |-> TRUE, version |-> 1,
                                    baseMediaDecodeTime |-> p.tfdt],
                          truns |-> << [version |-> 1,
                                        dataOffset |->
                                            IF p.hasDataOffset
                                            THEN MoofBytes(n) + 8 ELSE Undefined,
                                        firstSampleFlags |-> 0,
                                        samples |-> p.samples] >>] >>],
           [type |-> "mdat", start |-> moofEnd, headerSize |-> 8, end |-> mdatEnd,
            trafs |-> << >>] >>

\* the boxes of a file made of the given pairs, one after the other from `at`
RECURSIVE StitchedBoxes(_, _)
StitchedBoxes(pairs, at) ==
    IF Len(pairs) = 0 THEN << >>
    ELSE PairBoxes(Head(pairs), at)
            \o StitchedBoxes(Tail(pairs),
                   at + MoofBytes(Len(Head(pairs).samples)) + 8
                      + SumSeq([i \in 1..Len(Head(pairs).samples) |->
                                    Head(pairs).samples[i].size])
                      + Head(pairs).pad)

StitchedFile(pairs) ==
    [len |-> StitchedBoxes(pairs, 0)[2 * Len(pairs)].end,
     boxes |-> StitchedBoxes(pairs, 0)]

\* the trun samples of SpecParse: two bytes each, with a duration or without
StitchTrunSamples ==
    {[duration |-> d, size |-> 2, flags |-> Undefined,
      ctoBits |-> IF d = 0 THEN 1000 ELSE 0] : d \in {0, 1000}}

\* the pairs of k samples SpecParse draws from.  Of the selected track and
\* with data_offset: decode times from 0 or 3000, samples with a duration or
\* without.  Then, from decode time 0: with base_data_offset as well; without
\* data_offset, with base_data_offset or not; without data_offset and with
\* an mdat that holds a byte more than the samples; and of another track.
PairKinds(k) ==
    {[tfdt |-> t, trackId |-> 1, hasBase |-> FALSE, hasDataOffset |-> TRUE, pad |-> 0,
      samples |-> [i \in 1..k |-> ts]] : t \in {0, 3000}, ts \in StitchTrunSamples}
    \cup {[tfdt |-> 0, trackId |-> 1, hasBase |-> FALSE, hasDataOffset |-> FALSE,
           pad |-> 0, samples |-> [i \in 1..k |-> ts]] : ts \in StitchTrunSamples}
    \cup {[tfdt |-> 0, trackId |-> tr, hasBase |-> b, hasDataOffset |-> o, pad |-> p,
           samples |-> [i \in 1..k |-> [duration |-> 1000, size |-> 2,
                                        flags |-> Undefined, ctoBits |-> 0]]] :
            <<tr, b, o, p>> \in {<<1, TRUE, TRUE, 0>>, <<1, TRUE, FALSE, 0>>,
                                 <<1, FALSE, FALSE, 1>>, <<2, FALSE, TRUE, 0>>}}

\* the lists of pairs that announce n trun samples in all
RECURSIVE PairLists(_)
PairLists(n) ==
    IF n = 0 THEN {<< >>}
    ELSE UNION {{<<p>> \o rest : p \in PairKinds(k), rest \in PairLists(n - k)} :
                    k \in 1..n}

StitchedFragments(n) == {StitchedFile(pairs) : pairs \in PairLists(n)}

InitParse ==
    /\ pc = "input"
    /\ api = "none"
    /\ opts \in {[NoOpts EXCEPT !.allowTrunDataOffsetFallback = a] : a \in OptionValues}
    /\ config = NoConfig
    /\ fragments = << >>
    /\ perFileSamples = << >>
    /\ normalized = << >>
    /\ discontinuityDetected = FALSE
    /\ built = NotBuilt
    /\ err = "none"
    /\ buffers = << >>
    /\ init = NoBuffer
    /\ fileDuration = 0
    /\ NoBoxCall

\* new FragmentParser(config, opts).parse(file): the samples it returns, or
\* the error it throws
CallParse ==
    /\ pc = "input"
    /\ \E n \in 1..MaxSamples : \E file \in StitchedFragments(n) :
         /\ fragments' = <<file>>
         /\ \E r \in {parse(file, config.trackId, AllowTrunDataOffsetFallbackOf(opts))} :
              /\ err' = r.err
              /\ pc' = IF r.err = "none" THEN "returned" ELSE "failed"
              /\ perFileSamples' = IF r.err = "none" THEN <<r.out>> ELSE << >>
    /\ api' = "parse"
    /\ UNCHANGED splitVars
    /\ UNCHANGED <<fileDuration, boxVars>>
    /\ UNCHANGED <<opts, config, normalized, discontinuityDetected, built>>

NextParse == CallParse

SpecParse == InitParse /\ [][NextParse]_vars

(***************************************************************************)
(* Claims about FragmentParser.parse                                       *)
(***************************************************************************)

\* parse has been called and has returned or thrown
Parsed == api = "parse" /\ pc \in {"returned", "failed"}
ParsedFile == fragments[1]
ParsedSamples == IF perFileSamples = << >> THEN << >> ELSE perFileSamples[1]

\* the moof/mdat pairs of the parsed file, and the trun of the k-th pair
ParsedPairs == PairsFrom(ParsedFile.boxes, 1)
PairMoof(k) == ParsedFile.boxes[ParsedPairs[k][1]]
PairMdat(k) == ParsedFile.boxes[ParsedPairs[k][2]]
PairTraf(k) == PairMoof(k).trafs[1]
PairTrun(k) == PairTraf(k).truns[1]
PairSelected(k) == PairTraf(k).tfhd.trackId = config.trackId
MdatPayloadLength(k) == PairMdat(k).end - (PairMdat(k).start + PairMdat(k).headerSize)

\* S6: every pair is of the selected track, its trun omits data_offset and
\* its sample sizes sum to the mdat payload length
IsS6 ==
    \A k \in 1..Len(ParsedPairs) :
        /\ PairSelected(k)
        /\ PairTrun(k).dataOffset = Undefined
        /\ SumSizes(PairTraf(k).tfhd, PairTrun(k).samples) = MdatPayloadLength(k)

\* C11: with allowTrunDataOffsetFallback = true, parse succeeds on every S6
\* fragment, with base_data_offset in tfhd or without, and the bytes of the
\* samples it returns total the mdat payload.
C11_FallbackSucceeds ==
    (Parsed /\ AllowTrunDataOffsetFallbackOf(opts) /\ IsS6) =>
        /\ err = "none"
        /\ SumSeq([i \in 1..Len(ParsedSamples) |-> ParsedSamples[i].data.len])
              = SumSeq([k \in 1..Len(ParsedPairs) |-> MdatPayloadLength(k)])

\* C12: with allowTrunDataOffsetFallback false or unset, a fragment with a
\* trun of the selected track that has no data_offset (the pairs before it
\* being well-formed) makes parse fail with MissingTrunDataOffset, and no
\* sample of the fragment is returned, those of the earlier pairs included.
C12_NoFallbackFails ==
    (Parsed /\ ~AllowTrunDataOffsetFallbackOf(opts)
            /\ \E k \in 1..Len(ParsedPairs) :
                  PairSelected(k) /\ PairTrun(k).dataOffset = Undefined) =>
        /\ err = "MissingTrunDataOffset"
        /\ pc = "failed"
        /\ ParsedSamples = << >>

\* the option left out, a first pair that parses, and a second one whose trun
\* has no data_offset
C12_Witness ==
    /\ Parsed /\ opts.allowTrunDataOffsetFallback = "unset"
    /\ Len(ParsedPairs) = 2
    /\ PairSelected(1) /\ PairTrun(1).dataOffset # Undefined
    /\ PairSelected(2) /\ PairTrun(2).dataOffset = Undefined
    /\ err = "MissingTrunDataOffset"

\* what extractSamplesFromMoofMdat gives for the k-th pair, before stitching
RawOfPair(k) ==
    extractSamplesFromMoofMdat(ParsedFile.len, PairMoof(k), PairMdat(k), config.trackId,
                               AllowTrunDataOffsetFallbackOf(opts)).out

\* the number of samples emitted from the pairs before the k-th
EmittedBefore(k) == SumSeq([j \in 1..(k - 1) |-> Len(RawOfPair(j))])

\* the pairs that gave samples
NonEmptyPairs == {k \in 1..Len(ParsedPairs) : Len(RawOfPair(k)) > 0}

\* the intraOffset of the k-th pair, read off its first sample
IntraOffsetOf(k) == ParsedSamples[EmittedBefore(k) + 1].dts - RawOfPair(k)[1].dts

\* max(dts + max(0, duration)) over the first n returned samples
EndOfFirst(n) ==
    MaxOf([i \in 1..n |-> ParsedSamples[i].dts
                            + (IF ParsedSamples[i].duration > 0
                               THEN ParsedSamples[i].duration ELSE 0)])

\* C20: in the list parse returns, the samples of each pair are those
\* extracted from it, all shifted by one intraOffset in dts and cts alike;
\* intraOffset never decreases from pair to pair; and the first sample of
\* every pair after the first non-empty one has dts >= the greatest
\* dts + max(0, duration) of the samples of the earlier pairs.
C20_IntraFileStitching ==
    (Parsed /\ pc = "returned") =>
        /\ Len(ParsedSamples) = EmittedBefore(Len(ParsedPairs) + 1)
        /\ \A k \in NonEmptyPairs :
             /\ \A i \in 1..Len(RawOfPair(k)) :
                   ParsedSamples[EmittedBefore(k) + i] =
                       [RawOfPair(k)[i] EXCEPT !.dts = @ + IntraOffsetOf(k),
                                               !.cts = @ + IntraOffsetOf(k)]
             /\ \A j \in NonEmptyPairs : j < k => IntraOffsetOf(j) <= IntraOffsetOf(k)
             /\ EmittedBefore(k) > 0 =>
                   ParsedSamples[EmittedBefore(k) + 1].dts >= EndOfFirst(EmittedBefore(k))

\* three pairs with samples: the second starts before the first ends and is
\* moved, the third starts late enough and keeps the offset of the second
C20_Witness ==
    /\ Parsed /\ pc = "returned"
    /\ NonEmptyPairs = {1, 2, 3}
    /\ IntraOffsetOf(1) = 0
    /\ IntraOffsetOf(2) > 0
    /\ IntraOffsetOf(3) = IntraOffsetOf(2)
    /\ ParsedSamples[3].dts > EndOfFirst(2)
    /\ ParsedSamples[2].cts # ParsedSamples[2].dts

(***************************************************************************)
(* SpecDirect: a caller makes a Sample list of its own and hands it to     *)
(* Mp4Builder.build.  `normalized` is the list build is given.             *)
(***************************************************************************)

\* the Samples a caller may make: decode times 0 or 2000, composition
\* offsets 0, +1000, -1000 and one that no 32-bit field holds, keyframes and
\* others, of one byte
DirectSamples ==
    {[dts |-> d, cts |-> d + o, duration |-> 1000, size |-> 1, isKeyframe |-> kf,
      data |-> [off |-> 0, len |-> 1], ref |-> 0] :
        d \in {0, 2000}, o \in {0, 1000, 0 - 1000, Word32}, kf \in BOOLEAN}

\* the TrackConfigs of SpecDirect: two timescales
DirectConfigs == {[NoConfig EXCEPT !.timescale = t] : t \in {1000, 90000}}

InitDirect ==
    /\ pc = "input"
    /\ api = "none"
    /\ opts = NoOpts
    /\ config \in DirectConfigs
    /\ fragments = << >>
    /\ perFileSamples = << >>
    /\ normalized = << >>
    /\ discontinuityDetected = FALSE
    /\ built = NotBuilt
    /\ err = "none"
    /\ buffers = << >>
    /\ init = NoBuffer
    /\ fileDuration = 0
    /\ NoBoxCall

\* the caller appends a Sample to its list
PushBuildSample ==
    /\ pc = "input"
    /\ Len(normalized) < MaxSamples
    /\ \E s \in DirectSamples : normalized' = Append(normalized, s)
    /\ UNCHANGED splitVars
    /\ UNCHANGED <<fileDuration, boxVars>>
    /\ UNCHANGED <<pc, api, opts, config, fragments, perFileSamples,
                   discontinuityDetected, built, err>>

\* new Mp4Builder().build(config, samples)
CallBuild ==
    /\ pc = "input"
    /\ \E r \in {build(config, normalized)} :
           /\ built' = r
           /\ err' = r.err
           /\ pc' = IF r.err = "none" THEN "built" ELSE "failed"
    /\ api' = "build"
    /\ UNCHANGED splitVars
    /\ UNCHANGED <<fileDuration, boxVars>>
    /\ UNCHANGED <<opts, config, fragments, perFileSamples, normalized,
                   discontinuityDetected>>

NextDirect == PushBuildSample \/ CallBuild

SpecDirect == InitDirect /\ [][NextDirect]_vars

(***************************************************************************)
(* Claims about the tables Mp4Builder.build writes                         *)
(***************************************************************************)

\* build was called on `normalized` and returned
BuildReturned == api = "build" /\ pc = "built"

\* the indices of the keyframes of the list build was given
KeyframeIndices == {i \in 1..Len(normalized) : normalized[i].isKeyframe}

\* C13: the sample numbers written in stss are the 1-based numbers of the
\* keyframes, in increasing order, and stss is omitted exactly when no
\* sample is a keyframe.
C13_KeyframeRoundTrip ==
    BuildReturned =>
        /\ built.stss.present <=> KeyframeIndices # {}
        /\ {built.stss.entries[k] : k \in 1..Len(built.stss.entries)} = KeyframeIndices
        /\ Len(built.stss.entries) = Cardinality(KeyframeIndices)
        /\ \A k \in 1..(Len(built.stss.entries) - 1) :
               built.stss.entries[k] < built.stss.entries[k + 1]

\* keyframes that are neither all the samples nor the first ones
C13_Witness ==
    /\ BuildReturned
    /\ KeyframeIndices = {2, 3}
    /\ built.stss.entries = <<2, 3>>

\* the composition offsets cts - dts of the list build was given
Offsets == [i \in 1..Len(normalized) |-> normalized[i].cts - normalized[i].dts]

\* the index in the sample list at which the k-th ctts entry starts
CttsRunStart(k) == 1 + SumSeq([j \in 1..(k - 1) |-> built.ctts.entries[j].count])

\* C14: ctts is omitted if and only if cts - dts is zero for every sample;
\* when present, its entries are the run-length encoding of the cts - dts
\* sequence (the maximal runs of equal offsets, in order, each value written
\* as a 32-bit field), and its version is 1 exactly when some offset is
\* negative.
C14_CttsOmission ==
    BuildReturned =>
        /\ ~built.ctts.present <=> \A i \in 1..Len(Offsets) : Offsets[i] = 0
        /\ built.ctts.present =>
             /\ CttsRunStart(Len(built.ctts.entries) + 1) = Len(Offsets) + 1
             /\ \A k \in 1..Len(built.ctts.entries) :
                    /\ built.ctts.entries[k].count > 0
                    /\ \A i \in CttsRunStart(k)..(CttsRunStart(k + 1) - 1) :
                           built.ctts.entries[k].value = ToUint32(Offsets[i])
             /\ \A k \in 2..Len(built.ctts.entries) :
                    Offsets[CttsRunStart(k) - 1] # Offsets[CttsRunStart(k)]
             /\ built.ctts.version = 1 <=> \E i \in 1..Len(Offsets) : Offsets[i] < 0

\* a run of two negative offsets after a zero one
C14_Witness ==
    /\ BuildReturned
    /\ Offsets = <<0, 0 - 1000, 0 - 1000>>
    /\ built.ctts.present
    /\ built.ctts.version = 1
    /\ Len(built.ctts.entries) = 2

\* the keyframes of the list build was given, in order
Keyframes == SelectSeq(normalized, LAMBDA x : x.isKeyframe)

\* C16: idrTimestamps has one entry per keyframe sample, in decode order;
\* entry k is (dts of the k-th keyframe) / timescale; and its length is the
\* number of stss entries.
C16_IdrTimestamps ==
    BuildReturned =>
        /\ Len(built.idrTimestamps) = Len(Keyframes)
        /\ \A k \in 1..Len(Keyframes) :
               /\ built.idrTimestamps[k].num = Keyframes[k].dts
               /\ built.idrTimestamps[k].den = config.timescale
        /\ Len(built.idrTimestamps) = Len(built.stss.entries)

\* two keyframes around another sample, with composition times that differ
\* from their decode times
C16_Witness ==
    /\ BuildReturned
    /\ KeyframeIndices = {1, 3}
    /\ normalized[1].cts # normalized[1].dts
    /\ normalized[3].dts # normalized[1].dts
    /\ Len(built.idrTimestamps) = 2

(***************************************************************************)
(* SpecSplit: a caller hands a list of buffers to splitInitAndFragments.   *)
(***************************************************************************)

\* the longest list of buffers of the model
MaxBuffers == 4

\* a splitter that does not list the init buffer among the fragments
SplitStep_InitNotFragment(st, buf) ==
    IF buf.moov /\ st.init = NoBuffer
    THEN [st EXCEPT !.init = buf]
    ELSE [st EXCEPT !.fragments = Append(@, buf)]

\* the body of the loop of splitInitAndFragments (index.ts lines 28-56) for
\* one buffer; st = [init, fragments]
SplitStep(st, buf) ==
    IF buf.moov /\ ~buf.moof
    THEN IF st.init = NoBuffer THEN [st EXCEPT !.init = buf]
         ELSE [st EXCEPT !.fragments = Append(@, buf)]
    ELSE IF ~buf.moov /\ buf.moof
    THEN [st EXCEPT !.fragments = Append(@, buf)]
    ELSE IF buf.moov /\ buf.moof
    THEN [st EXCEPT !.init = IF @ = NoBuffer THEN buf ELSE @,
                    !.fragments = Append(@, buf)]
    ELSE IF buf.moov
    THEN IF st.init = NoBuffer THEN [st EXCEPT !.init = buf]
         ELSE [st EXCEPT !.fragments = Append(@, buf)]
    ELSE [st EXCEPT !.fragments = Append(@, buf)]

RECURSIVE SplitLoop(_, _, _)
SplitLoop(bufs, i, st) ==
    IF i > Len(bufs) THEN st ELSE SplitLoop(bufs, i + 1, SplitStep(st, bufs[i]))

\* splitInitAndFragments(buffers): [err, init, fragments]
splitInitAndFragments(bufs) ==
    TheOne({IF st.init = NoBuffer
            THEN [err |-> "NoInitSegment", init |-> NoBuffer, fragments |-> << >>]
            ELSE [err |-> "none", init |-> st.init, fragments |-> st.fragments]
            : st \in {SplitLoop(bufs, 1, [init |-> NoBuffer, fragments |-> << >>])}})

InitSplit ==
    /\ pc = "input"
    /\ api = "none"
    /\ opts = NoOpts
    /\ config = NoConfig
    /\ fragments = << >>
    /\ perFileSamples = << >>
    /\ normalized = << >>
    /\ discontinuityDetected = FALSE
    /\ built = NotBuilt
    /\ err = "none"
    /\ buffers = << >>
    /\ init = NoBuffer
    /\ fileDuration = 0
    /\ NoBoxCall

\* the caller appends a buffer to its list
PushBuffer ==
    /\ pc = "input"
    /\ Len(buffers) < MaxBuffers
    /\ \E moov \in BOOLEAN, moof \in BOOLEAN :
         buffers' = Append(buffers, [id |-> Len(buffers) + 1, moov |-> moov, moof |-> moof])
    /\ UNCHANGED <<pc, api, opts, config, fragments, perFileSamples, normalized,
                   discontinuityDetected, built, err, init>>
    /\ UNCHANGED <<fileDuration, boxVars>>

\* splitInitAndFragments(buffers)
CallSplit ==
    /\ pc = "input"
    /\ \E r \in {splitInitAndFragments(buffers)} :
           /\ init' = r.init
           /\ fragments' = r.fragments
           /\ err' = r.err
           /\ pc' = IF r.err = "none" THEN "returned" ELSE "failed"
    /\ api' = "splitInitAndFragments"
    /\ UNCHANGED <<opts, config, perFileSamples, normalized, discontinuityDetected,
                   built, buffers>>
    /\ UNCHANGED <<fileDuration, boxVars>>

NextSplit == PushBuffer \/ CallSplit

SpecSplit == InitSplit /\ [][NextSplit]_vars

(***************************************************************************)
(* Claims about the splitter                                               *)
(***************************************************************************)

\* splitInitAndFragments has returned or thrown
SplitDone == api = "splitInitAndFragments" /\ pc \in {"returned", "failed"}

\* the places in the input of the buffers that hold a moov
WithMoov == {i \in 1..Len(buffers) : buffers[i].moov}

\* the place of the first buffer that holds a moov
FirstMoov == CHOOSE i \in WithMoov : \A j \in WithMoov : i <= j

\* the places of the buffers the claim lists as fragments: those with a moof,
\* the moov-only ones after the init segment, and those with neither box
ListedAsFragments ==
    {i \in 1..Len(buffers) :
        \/ buffers[i].moof
        \/ buffers[i].moov /\ ~buffers[i].moof /\ i > FirstMoov
        \/ ~buffers[i].moov /\ ~buffers[i].moof}

\* C15: the init segment is the first buffer that holds a moov; the fragment
\* list holds, in input order and once each, the buffers with a moof (the
\* init buffer too when it has both boxes), the later moov-only buffers and
\* the buffers with neither box; and the call fails with NoInitSegment if
\* and only if no buffer holds a moov.
C15_Splitter ==
    SplitDone =>
        /\ (pc = "failed" /\ err = "NoInitSegment") <=> WithMoov = {}
        /\ WithMoov # {} =>
             /\ pc = "returned"
             /\ init = buffers[FirstMoov]
             /\ Len(fragments) = Cardinality(ListedAsFragments)
             /\ \A k \in 1..Len(fragments) :
                    /\ fragments[k].id \in ListedAsFragments
                    /\ fragments[k] = buffers[fragments[k].id]
             /\ \A k \in 1..(Len(fragments) - 1) : fragments[k].id < fragments[k + 1].id

\* a buffer with neither box, then the init buffer with both boxes, then a
\* moov-only one and a moof-only one
C15_Witness ==
    /\ SplitDone /\ pc = "returned"
    /\ Len(buffers) = 4
    /\ ~buffers[1].moov /\ ~buffers[1].moof
    /\ buffers[2].moov /\ buffers[2].moof
    /\ buffers[3].moov /\ ~buffers[3].moof
    /\ ~buffers[4].moov /\ buffers[4].moof
    /\ init = buffers[2]
    /\ Len(fragments) = 4

(***************************************************************************)
(* Claims about normalizeFragments: offsets and order                      *)
(***************************************************************************)

\* normalizeFragments has returned
FragmentsReturned == pc = "returned" /\ api = "normalizeFragments"

\* every timestamp of the input is a finite number
FiniteInput ==
    \A i \in 1..Len(InputList) :
        IsFinite(InputList[i].dts) /\ IsFinite(InputList[i].cts)
            /\ IsFinite(InputList[i].duration)

\* the samples of file k on their own, with their zero durations repaired
RepairedFile(k) == inferDurationsWithinFile(perFileSamples[k]).samples

\* the inferred end of file k: the greatest dts + max(0, duration) of its
\* repaired, unshifted samples (0 for a file without samples)
InferredEnd(k) ==
    LET repaired == RepairedFile(k)
        ends == {repaired[i].dts + (IF repaired[i].duration > 0
                                    THEN repaired[i].duration ELSE 0) :
                 i \in 1..Len(repaired)}
    IN  IF ends = {} THEN 0 ELSE CHOOSE e \in ends : \A x \in ends : x <= e

\* the sum of the inferred ends of the files before file k
EndsBefore(k) == SumSeq([j \in 1..(k - 1) |-> InferredEnd(j)])

\* the list normalizeFragments hands to normalize: the samples before
\* monotonization
BeforeMonotonization == CrossFileOffset(perFileSamples, NormalizeAcrossFilesOf(opts))

C18_OffsetsSurvive ==
    FragmentsReturned =>
        \A i \in 1..Len(InputList) :
            ( /\ IsFinite(InputList[i].dts) /\ IsFinite(InputList[i].cts)
              /\ InputList[i].cts >= InputList[i].dts /\ InputList[i].dts >= 0 )
            => normalized[i].cts - normalized[i].dts
                  = InputList[i].cts - InputList[i].dts

\* C19: normalizeFragments returns as many samples as its input holds, in
\* file order and in each file's order, each with the size, isKeyframe and
\* data of the input sample in its place, and the caller's Sample objects
\* are after the call what they were before it.
C19_OrderingContract ==
    [][(pc = "input" /\ api' = "normalizeFragments") =>
          /\ Len(normalized') = Len(Flatten(perFileSamples))
          /\ \A i \in 1..Len(Flatten(perFileSamples)) :
                /\ normalized'[i].size = Flatten(perFileSamples)[i].size
                /\ normalized'[i].isKeyframe = Flatten(perFileSamples)[i].isKeyframe
                /\ normalized'[i].data = Flatten(perFileSamples)[i].data
                /\ normalized'[i].ref # Flatten(perFileSamples)[i].ref
          /\ perFileSamples' = perFileSamples]_vars

\* two files whose samples are not in decode order, with a zero duration the
\* normalizer repairs and a dts it moves
C19_Witness ==
    /\ FragmentsReturned
    /\ Len(perFileSamples) = 2
    /\ Len(InputList) = 3
    /\ InputList[1].dts = 2 /\ InputList[2].dts = 0 /\ InputList[3].dts = 0
    /\ InputList[1].duration = 0
    /\ normalized[1].duration # 0
    /\ normalized[2].dts # 0
    /\ \A i \in 1..3 : normalized[i].data = InputList[i].data


(***************************************************************************)
(* SpecExtract: a caller hands FragmentParser.parse one fragment of one    *)
(* moof and one mdat; the moof holds several trafs and truns.              *)
(***************************************************************************)

\* A traf is described by t = [trackId, tfdt, hasBase, defDuration, defSize,
\* defFlags, runs] and each of its runs by [delta, version, first, samples]:
\* the run's bytes follow those of the runs before it in the mdat payload
\* and its data_offset points delta bytes after their first byte.

\* the bytes of a moof that holds these trafs (mfhd; per traf the tfhd, the
\* tfdt and the truns)
MoofLen(trafs) ==
    8 + 16 + SumSeq([k \in 1..Len(trafs) |->
                 8 + 28 + 20 + SumSeq([r \in 1..Len(trafs[k].runs) |->
                                   20 + 16 * Len(trafs[k].runs[r].samples)])])

\* the bytes the samples of a run announce
RunBytes(t, r) == SumSizes([defaultSampleSize |-> t.defSize], t.runs[r].samples)

\* the bytes of the runs laid out before run r of traf k
RunsBefore(trafs, k, r) ==
    SumSeq([j \in 1..(k - 1) |->
               SumSeq([q \in 1..Len(trafs[j].runs) |-> RunBytes(trafs[j], q)])])
    + SumSeq([q \in 1..(r - 1) |-> RunBytes(trafs[k], q)])

\* the fragment file: the moof at byte 0, then the mdat, whose payload is
\* the bytes of all the runs and pad bytes more
ExtractFile(trafs, pad) ==
    LET moofEnd == MoofLen(trafs)
        mdatEnd == moofEnd + 8 + RunsBefore(trafs, Len(trafs) + 1, 1) + pad
    IN  [len |-> mdatEnd,
         boxes |-> <<
            [type |-> "moof", start |-> 0, headerSize |-> 8, end |-> moofEnd,
             trafs |-> [k \in 1..Len(trafs) |->
                [tfhd |-> [present |-> TRUE, trackId |-> trafs[k].trackId,
                           baseDataOffset |->
                               IF trafs[k].hasBase THEN 0 ELSE Undefined,
                           defaultSampleDuration |-> trafs[k].defDuration,
                           defaultSampleSize |-> trafs[k].defSize,
                           defaultSampleFlags |-> trafs[k].defFlags],
                 tfdt |-> [present |-> TRUE, version |-> 1,
                           baseMediaDecodeTime |-> trafs[k].tfdt],
                 truns |-> [r \in 1..Len(trafs[k].runs) |->
                    [version |-> trafs[k].runs[r].version,
                     dataOffset |-> moofEnd + 8 + RunsBefore(trafs, k, r)
                                       + trafs[k].runs[r].delta,
                     firstSampleFlags |-> trafs[k].runs[r].first,
                     samples |-> trafs[k].runs[r].samples]]]]],
            [type |-> "mdat", start |-> moofEnd, headerSize |-> 8, end |-> mdatEnd,
             trafs |-> << >>] >>]

\* a traf of the selected track that leaves every optional field out
PlainTraf ==
    [trackId |-> 1, tfdt |-> 0, hasBase |-> FALSE, defDuration |-> Undefined,
     defSize |-> Undefined, defFlags |-> Undefined, runs |-> << >>]

\* runs of k samples that vary in their sizes: every sample with a size of
\* its own (0 or 2 bytes) or none of them; the data_offset right, a byte
\* early or a byte late
SizeRuns(k) ==
    {[delta |-> d, version |-> 1, first |-> Undefined, samples |-> ss] :
        d \in {0, 0 - 1, 1},
        ss \in {[i \in 1..k |-> [duration |-> 1000, size |-> sz[i],
                                 flags |-> Undefined, ctoBits |-> Undefined]] :
                    sz \in [1..k -> {0, 2}] \cup {[i \in 1..k |-> Undefined]}}}

\* the lists of one or two such runs that announce n samples in all
SizeRunLists(n) ==
    {<<r>> : r \in SizeRuns(n)}
    \cup UNION {{<<r1, r2>> : r1 \in SizeRuns(k), r2 \in SizeRuns(n - k)} :
                    k \in 1..(n - 1)}

\* the fragments of n samples with varying sizes: the tfhd with a default
\* size (3 bytes) or without, the mdat exact or one byte longer; and a
\* fragment whose only run is empty and starts a byte early
SizeFragments(n) ==
    {ExtractFile(<<[PlainTraf EXCEPT !.defSize = ds, !.runs = runs]>>, pad) :
        ds \in {Undefined, 3}, runs \in SizeRunLists(n), pad \in {0, 1}}
    \cup {ExtractFile(<<[PlainTraf EXCEPT !.runs =
                            <<[delta |-> 0 - 1, version |-> 1, first |-> Undefined,
                               samples |-> << >>]>>]>>, 0)}

\* sample flags: none set, the non-sync bit alone, other bits without it,
\* other bits with it
FlagValues == {0, NonSyncBit, 2 * NonSyncBit + 1, 3 * NonSyncBit}

\* the fragments of one run of n samples of 2 bytes whose flags vary: the
\* tfhd default and first_sample_flags absent or any value, the samples all
\* without flags or each with flags of its own
FlagFragments(n) ==
    {ExtractFile(<<[PlainTraf EXCEPT !.defFlags = df, !.runs =
                        <<[delta |-> 0, version |-> 1, first |-> ff, samples |->
                             [i \in 1..n |-> [duration |-> 1000, size |-> 2,
                                              flags |-> fl[i],
                                              ctoBits |-> Undefined]]]>>]>>, 0) :
        df \in FlagValues \cup {Undefined}, ff \in FlagValues \cup {Undefined},
        fl \in [1..n -> FlagValues] \cup {[i \in 1..n |-> Undefined]}}

\* runs of k samples of 2 bytes that vary in time: every sample with a
\* duration of its own (0 or 1000) or none of them, and all of them with a
\* composition offset (-1, as the 32-bit field of a version-1 trun) or
\* without
TimingRuns(k) ==
    {[delta |-> 0, version |-> 1, first |-> Undefined, samples |-> ss] :
        ss \in {[i \in 1..k |-> [duration |-> du[i], size |-> 2, flags |-> Undefined,
                                 ctoBits |-> c]] :
                    du \in [1..k -> {0, 1000}] \cup {[i \in 1..k |-> Undefined]},
                    c \in {Undefined, Word32 - 1}}}

\* the lists of one or two such runs that announce n samples in all
TimingRunLists(n) ==
    {<<r>> : r \in TimingRuns(n)}
    \cup UNION {{<<r1, r2>> : r1 \in TimingRuns(k), r2 \in TimingRuns(n - k)} :
                    k \in 1..(n - 1)}

\* the fragments of n samples whose timing varies.  One traf of the track:
\* decode times from 0 or 3000, the tfhd with a default duration or
\* without, one run or two.  Two trafs, each of the track or of another
\* one, each from 0 or 3000, with one run of samples that last 1000.
TimingFragments(n) ==
    {ExtractFile(<<[PlainTraf EXCEPT !.tfdt = t, !.defDuration = dd, !.runs = runs]>>, 0) :
        t \in {0, 3000}, dd \in {Undefined, 500}, runs \in TimingRunLists(n)}
    \cup UNION {
        {ExtractFile(<<[PlainTraf EXCEPT !.trackId = tr[1], !.tfdt = t[1], !.runs =
                          <<[delta |-> 0, version |-> 1, first |-> Undefined, samples |->
                               [i \in 1..k |-> [duration |-> 1000, size |-> 2,
                                                flags |-> Undefined,
                                                ctoBits |-> Undefined]]]>>],
                       [PlainTraf EXCEPT !.trackId = tr[2], !.tfdt = t[2], !.runs =
                          <<[delta |-> 0, version |-> 1, first |-> Undefined, samples |->
                               [i \in 1..(n - k) |-> [duration |-> 1000, size |-> 2,
                                                      flags |-> Undefined,
                                                      ctoBits |-> Undefined]]]>>]>>, 0) :
            tr \in {1, 2} \X {1, 2}, t \in {0, 3000} \X {0, 3000}} : k \in 1..(n - 1)}

InitExtract ==
    /\ pc = "input"
    /\ api = "none"
    /\ opts = NoOpts
    /\ config = NoConfig
    /\ fragments = << >>
    /\ perFileSamples = << >>
    /\ normalized = << >>
    /\ discontinuityDetected = FALSE
    /\ built = NotBuilt
    /\ err = "none"
    /\ buffers = << >>
    /\ init = NoBuffer
    /\ fileDuration = 0
    /\ NoBoxCall

\* new FragmentParser(config, opts).parse(file) on a given file
ParseFile(file) ==
    /\ pc = "input"
    /\ fragments' = <<file>>
    /\ \E r \in {parse(file, config.trackId, AllowTrunDataOffsetFallbackOf(opts))} :
         /\ err' = r.err
         /\ pc' = IF r.err = "none" THEN "returned" ELSE "failed"
         /\ perFileSamples' = IF r.err = "none" THEN <<r.out>> ELSE << >>
    /\ api' = "parse"
    /\ UNCHANGED splitVars
    /\ UNCHANGED <<fileDuration, boxVars>>
    /\ UNCHANGED <<opts, config, normalized, discontinuityDetected, built>>

\* parse called on a fragment whose sample sizes and data offsets vary
ParseSizes == \E n \in 1..MaxSamples : \E file \in SizeFragments(n) : ParseFile(file)

\* parse called on a fragment whose sample flags vary
ParseFlags == \E n \in 1..MaxSamples : \E file \in FlagFragments(n) : ParseFile(file)

\* parse called on a fragment whose decode and composition times vary
ParseTiming == \E n \in 1..MaxSamples : \E file \in TimingFragments(n) : ParseFile(file)

NextExtract == ParseSizes \/ ParseFlags \/ ParseTiming

SpecExtract == InitExtract /\ [][NextExtract]_vars


(***************************************************************************)
(* Claims about extractSamplesFromMoofMdat (one moof, one mdat)            *)
(***************************************************************************)

\* the payload of the mdat of the parsed fragment
PayloadStart == PairMdat(1).start + PairMdat(1).headerSize
PayloadEnd == PairMdat(1).end

\* the runs of the trafs of the selected track, in the order of the moof
RECURSIVE RunsOf(_)
RunsOf(trafs) ==
    IF Len(trafs) = 0 THEN << >>
    ELSE [r \in 1..Len(Head(trafs).truns) |->
             [tfhd |-> Head(trafs).tfhd, tfdt |-> Head(trafs).tfdt,
              trun |-> Head(trafs).truns[r], r |-> r]]
         \o RunsOf(Tail(trafs))

SelectedRuns ==
    RunsOf(SelectSeq(PairMoof(1).trafs,
                     LAMBDA t : t.tfhd.present /\ t.tfhd.trackId = config.trackId))

\* of the i-th sample of the q-th selected run: its resolved size and the
\* first byte of its range (the run's data_offset from the base, then the
\* sizes of the samples before it)
RunSize(q, i) == SampleSize(SelectedRuns[q].tfhd, SelectedRuns[q].trun.samples[i])
RunStart(q) ==
    OrElse(SelectedRuns[q].tfhd.baseDataOffset, PairMoof(1).start)
        + SelectedRuns[q].trun.dataOffset
RunCursor(q, i) == RunStart(q) + SumSeq([j \in 1..(i - 1) |-> RunSize(q, j)])
RunLength(q) == Len(SelectedRuns[q].trun.samples)

\* what is wrong with that sample, if anything
SampleFault(q, i) ==
    IF RunSize(q, i) = 0 THEN "MissingSampleSize"
    ELSE IF RunCursor(q, i) < PayloadStart \/ RunCursor(q, i) + RunSize(q, i) > PayloadEnd
         THEN "MdatRangeMismatch"
    ELSE "none"

FaultySamples ==
    {x \in UNION {{<<q, i>> : i \in 1..RunLength(q)} : q \in 1..Len(SelectedRuns)} :
        SampleFault(x[1], x[2]) # "none"}

\* the first faulty sample in the order of extraction
FirstFaulty ==
    CHOOSE x \in FaultySamples :
        \A y \in FaultySamples : x[1] < y[1] \/ (x[1] = y[1] /\ x[2] <= y[2])

\* the place in the returned list of the i-th sample of the q-th run
EmittedAt(q, i) == SumSeq([p \in 1..(q - 1) |-> RunLength(p)]) + i

\* every run has data_offset and samples, so that the sample checks are the
\* only ones that can fail
SampleChecksOnly ==
    \A q \in 1..Len(SelectedRuns) :
        RunLength(q) > 0 /\ SelectedRuns[q].trun.dataOffset # Undefined

\* every returned sample covers [cursor, cursor + size) with size > 0 inside
\* the mdat payload, and the samples of a run follow each other byte by byte
EmittedInsidePayload ==
    (Parsed /\ pc = "returned" /\ SampleChecksOnly) =>
        /\ Len(ParsedSamples) = EmittedAt(Len(SelectedRuns) + 1, 0)
        /\ \A q \in 1..Len(SelectedRuns) : \A i \in 1..RunLength(q) :
             LET s == ParsedSamples[EmittedAt(q, i)]
             IN  /\ s.size > 0 /\ s.size = RunSize(q, i)
                 /\ s.data = [off |-> RunCursor(q, i), len |-> s.size]
                 /\ PayloadStart <= s.data.off
                 /\ s.data.off + s.size <= PayloadEnd
                 /\ i > 1 => s.data.off = ParsedSamples[EmittedAt(q, i) - 1].data.off
                                             + ParsedSamples[EmittedAt(q, i) - 1].size

\* C21 as stated: the samples parse returns lie inside the mdat payload and
\* are contiguous within a run; every run that starts before the payload or
\* whose sizes run past its end makes parse fail with MdatRangeMismatch, and
\* every resolved size of 0 makes it fail with MissingSampleSize.
C21_EveryViolationNamed ==
    /\ EmittedInsidePayload
    /\ (Parsed /\ SampleChecksOnly) =>
          \A q \in 1..Len(SelectedRuns) :
             (\A p \in 1..(q - 1) : \A i \in 1..RunLength(p) : SampleFault(p, i) = "none") =>
                /\ (RunStart(q) < PayloadStart
                      \/ RunCursor(q, RunLength(q) + 1) > PayloadEnd)
                        => err = "MdatRangeMismatch"
                /\ (\E i \in 1..RunLength(q) : RunSize(q, i) = 0)
                        => err = "MissingSampleSize"

\* C21 (amended): the samples parse returns lie inside the mdat payload with
\* size > 0 and are contiguous within a run; parse fails when some sample
\* has a resolved size of 0 or a byte range that leaves the payload, and the
\* error is that of the first such sample: MissingSampleSize if its size is
\* 0, MdatRangeMismatch otherwise.
C21_ByteRangeSafety ==
    /\ EmittedInsidePayload
    /\ (Parsed /\ SampleChecksOnly) =>
          IF FaultySamples = {} THEN pc = "returned"
          ELSE /\ pc = "failed"
               /\ ParsedSamples = << >>
               /\ err = SampleFault(FirstFaulty[1], FirstFaulty[2])

\* a first run that is extracted, then a run whose second sample passes the
\* end of the payload after its first one fitted
C21_Witness ==
    /\ Parsed /\ SampleChecksOnly
    /\ Len(SelectedRuns) = 2
    /\ RunLength(1) = 1 /\ RunLength(2) = 2
    /\ FaultySamples # {} /\ FirstFaulty = <<2, 2>>
    /\ RunSize(2, 2) > 0
    /\ err = "MdatRangeMismatch"


\* the flags that apply to the i-th sample of the q-th selected run
EffectiveFlags(q, i) ==
    LET trun == SelectedRuns[q].trun
    IN  IF trun.samples[i].flags # Undefined THEN trun.samples[i].flags
        ELSE IF i = 1 /\ trun.firstSampleFlags # Undefined THEN trun.firstSampleFlags
        ELSE IF SelectedRuns[q].tfhd.defaultSampleFlags # Undefined
             THEN SelectedRuns[q].tfhd.defaultSampleFlags
        ELSE 0

\* C27: the flags of a sample are its own in the trun if it has them, else
\* first_sample_flags for the first sample of the trun if present, else the
\* tfhd default if present, else 0; and the sample is a keyframe exactly
\* when bit 0x00010000 of those flags is clear.
C27_SampleFlags ==
    (Parsed /\ pc = "returned" /\ SampleChecksOnly) =>
        \A q \in 1..Len(SelectedRuns) : \A i \in 1..RunLength(q) :
            ParsedSamples[EmittedAt(q, i)].isKeyframe
                <=> ((EffectiveFlags(q, i) \div 65536) % 2 = 0)

\* no sample has flags of its own; first_sample_flags has other bits set and
\* the non-sync bit clear, the tfhd default has the non-sync bit: the first
\* sample is a keyframe and the second is not
C27_Witness ==
    /\ Parsed /\ pc = "returned"
    /\ Len(SelectedRuns) = 1 /\ RunLength(1) >= 2
    /\ \A i \in 1..RunLength(1) : SelectedRuns[1].trun.samples[i].flags = Undefined
    /\ SelectedRuns[1].trun.firstSampleFlags = 2 * NonSyncBit + 1
    /\ SelectedRuns[1].tfhd.defaultSampleFlags = NonSyncBit
    /\ ParsedSamples[1].isKeyframe
    /\ ~ParsedSamples[2].isKeyframe

\* of the i-th sample of the q-th selected run: its duration and its
\* composition offset as the trun and the tfhd give them
RunDuration(q, i) ==
    LET ts == SelectedRuns[q].trun.samples[i]
    IN  IF ts.duration # Undefined THEN ts.duration
        ELSE IF SelectedRuns[q].tfhd.defaultSampleDuration # Undefined
             THEN SelectedRuns[q].tfhd.defaultSampleDuration
        ELSE 0
RunCto(q, i) ==
    OrElse(TrunCto(SelectedRuns[q].trun, SelectedRuns[q].trun.samples[i]), 0)

\* C28: the first sample of a selected traf has dts = tfdt's
\* baseMediaDecodeTime; every other one, through all the truns of the traf,
\* has dts = the dts of the sample before it + max(0, its duration); the
\* duration is the trun's, else the tfhd default, else 0; cts = dts + cto
\* with cto = 0 when absent; and the trafs of other tracks give no sample.
C28_DecodeClock ==
    (Parsed /\ pc = "returned" /\ SampleChecksOnly) =>
        /\ Len(ParsedSamples) = EmittedAt(Len(SelectedRuns) + 1, 0)
        /\ \A q \in 1..Len(SelectedRuns) : \A i \in 1..RunLength(q) :
             LET s == ParsedSamples[EmittedAt(q, i)]
                 prev == ParsedSamples[EmittedAt(q, i) - 1]
             IN  /\ s.duration = RunDuration(q, i)
                 /\ s.cts = s.dts + RunCto(q, i)
                 /\ s.dts = IF i = 1 /\ SelectedRuns[q].r = 1
                            THEN SelectedRuns[q].tfdt.baseMediaDecodeTime
                            ELSE prev.dts + (IF prev.duration > 0 THEN prev.duration ELSE 0)

\* a traf of another track, then a traf of the track from 3000 with two
\* samples: only the second traf gives samples, from 3000 on
C28_WitnessTracks ==
    /\ Parsed /\ pc = "returned"
    /\ Len(PairMoof(1).trafs) = 2
    /\ PairMoof(1).trafs[1].tfhd.trackId # config.trackId
    /\ PairMoof(1).trafs[2].tfhd.trackId = config.trackId
    /\ Len(ParsedSamples) = 2
    /\ ParsedSamples[1].dts = 3000 /\ ParsedSamples[2].dts = 4000

\* a traf of two runs: the first sample takes the tfhd default duration, the
\* clock runs on into the second run, and cts differs from dts
C28_Witness ==
    /\ Parsed /\ pc = "returned"
    /\ Len(SelectedRuns) = 2 /\ SelectedRuns[2].r = 2
    /\ SelectedRuns[1].trun.samples[1].duration = Undefined
    /\ ParsedSamples[1].duration = 500
    /\ ParsedSamples[EmittedAt(2, 1)].dts > SelectedRuns[1].tfdt.baseMediaDecodeTime
    /\ ParsedSamples[EmittedAt(2, 1)].cts # ParsedSamples[EmittedAt(2, 1)].dts


(***************************************************************************)
(* SpecPairing: a caller hands FragmentParser.parse a fragment whose top   *)
(* level is any sequence of moof, mdat and other boxes.                    *)
(***************************************************************************)

\* the longest top level SpecPairing draws
MaxBoxes == 5

\* the bytes of a top-level box of each kind: a moof with one traf and one
\* trun of one sample, an mdat of two bytes, an empty free box
KindBytes(kind) == IF kind = "moof" THEN MoofBytes(1) ELSE IF kind = "mdat" THEN 10 ELSE 8

\* where the box at index i of a top level of these kinds starts
BoxStart(kinds, i) == SumSeq([j \in 1..(i - 1) |-> KindBytes(kinds[j])])

\* the index of the first mdat from index j on (0 if there is none)
RECURSIVE NextMdat(_, _)
NextMdat(kinds, j) ==
    IF j > Len(kinds) THEN 0
    ELSE IF kinds[j] = "mdat" THEN j
    ELSE NextMdat(kinds, j + 1)

\* The fragment with that top level.  The traf of the moof at index i is of
\* the selected track and starts at decode time 1000 * i; its trun has one
\* sample of two bytes that lasts 1000, and its data_offset points at the
\* payload of the nearest mdat after the moof (right behind the moof if
\* there is none).
LayoutFile(kinds) ==
    [len |-> BoxStart(kinds, Len(kinds) + 1),
     boxes |-> [i \in 1..Len(kinds) |->
        [type |-> kinds[i], start |-> BoxStart(kinds, i), headerSize |-> 8,
         end |-> BoxStart(kinds, i + 1),
         trafs |->
            IF kinds[i] # "moof" THEN << >>
            ELSE << [tfhd |-> [present |-> TRUE, trackId |-> 1,
                               baseDataOffset |-> Undefined,
                               defaultSampleDuration |-> Undefined,
                               defaultSampleSize |-> Undefined,
                               defaultSampleFlags |-> Undefined],
                     tfdt |-> [present |-> TRUE, version |-> 1,
                               baseMediaDecodeTime |-> 1000 * i],
                     truns |-> << [version |-> 1,
                                   dataOffset |->
                                      IF NextMdat(kinds, i + 1) = 0 THEN MoofBytes(1) + 8
                                      ELSE BoxStart(kinds, NextMdat(kinds, i + 1)) + 8
                                              - BoxStart(kinds, i),
                                   firstSampleFlags |-> Undefined,
                                   samples |-> << [duration |-> 1000, size |-> 2,
                                                   flags |-> Undefined,
                                                   ctoBits |-> Undefined] >>] >>] >>]]]

LayoutFragments ==
    {LayoutFile(kinds) :
        kinds \in UNION {[1..n -> {"moof", "mdat", "free"}] : n \in 1..MaxBoxes}}

\* parse called on a fragment with any top level
ParseLayout == \E file \in LayoutFragments : ParseFile(file)

NextPairing == ParseLayout

SpecPairing == InitExtract /\ [][NextPairing]_vars

(***************************************************************************)
(* Claims about the pairing of moof and mdat                               *)
(***************************************************************************)

TopLevel == ParsedFile.boxes

\* the mdat of the moof at index i: the first mdat after it, if no moof
\* comes before that mdat
HasMdat(i) ==
    \E j \in (i + 1)..Len(TopLevel) :
        /\ TopLevel[j].type = "mdat"
        /\ \A m \in (i + 1)..(j - 1) : TopLevel[m].type \notin {"moof", "mdat"}
MdatOf(i) ==
    CHOOSE j \in (i + 1)..Len(TopLevel) :
        /\ TopLevel[j].type = "mdat"
        /\ \A m \in (i + 1)..(j - 1) : TopLevel[m].type \notin {"moof", "mdat"}

Moofs == {i \in 1..Len(TopLevel) : TopLevel[i].type = "moof"}
PairedMoofs == {i \in Moofs : HasMdat(i)}

\* the place among the pairs of the moof at index i
PairRank(i) == Cardinality({m \in PairedMoofs : m <= i})

\* what parse does: it fails with NoMoof when the fragment has no moof and
\* with MoofWithoutMdat when no moof at all is followed by an mdat before the
\* next moof; otherwise the pairs are, from left to right, the moofs that
\* have such an mdat, each with the first mdat after it, no mdat belongs to
\* two pairs, and the moofs without an mdat are passed over
PairsAsParsed ==
    Parsed =>
        IF Moofs = {} THEN pc = "failed" /\ err = "NoMoof"
        ELSE IF PairedMoofs = {} THEN pc = "failed" /\ err = "MoofWithoutMdat"
        ELSE /\ pc = "returned"
             /\ Len(ParsedSamples) = Cardinality(PairedMoofs)
             /\ \A i \in PairedMoofs :
                  LET s == ParsedSamples[PairRank(i)]
                  IN  /\ s.dts = TopLevel[i].trafs[1].tfdt.baseMediaDecodeTime
                      /\ s.data.off = TopLevel[MdatOf(i)].start + TopLevel[MdatOf(i)].headerSize
             /\ \A a, b \in 1..Len(ParsedSamples) :
                  a # b => ParsedSamples[a].data.off # ParsedSamples[b].data.off

\* C22: parse pairs each top-level moof with the first mdat that follows it
\* and precedes the next moof, in left-to-right order and with no mdat in
\* two pairs; it fails with NoMoof when the fragment has no moof and with
\* MoofWithoutMdat when a moof has no such mdat.
C22_Pairing ==
    Parsed =>
        IF Moofs = {} THEN pc = "failed" /\ err = "NoMoof"
        ELSE IF PairedMoofs # Moofs THEN pc = "failed" /\ err = "MoofWithoutMdat"
        ELSE /\ pc = "returned"
             /\ Len(ParsedSamples) = Cardinality(Moofs)
             /\ \A i \in Moofs :
                  LET s == ParsedSamples[PairRank(i)]
                  IN  /\ s.dts = TopLevel[i].trafs[1].tfdt.baseMediaDecodeTime
                      /\ s.data.off = TopLevel[MdatOf(i)].start + TopLevel[MdatOf(i)].headerSize
             /\ \A a, b \in 1..Len(ParsedSamples) :
                  a # b => ParsedSamples[a].data.off # ParsedSamples[b].data.off


(***************************************************************************)
(* SpecInfer: a caller builds one Sample list and calls                    *)
(* TimelineNormalizer.inferDurationsWithinFile on it.                      *)
(***************************************************************************)

\* normalizer.inferDurationsWithinFile(samples)
CallInferDurations ==
    /\ pc = "input"
    /\ \E r \in {inferDurationsWithinFile(perFileSamples[1])} :
          /\ normalized' = r.samples
          /\ fileDuration' = r.fileDuration
          /\ perFileSamples' = CallerAfter(perFileSamples, <<r.samples>>)
    /\ api' = "inferDurationsWithinFile"
    /\ pc' = "returned"
    /\ UNCHANGED splitVars
    /\ UNCHANGED boxVars
    /\ UNCHANGED <<opts, config, fragments, discontinuityDetected, built, err>>

NextInfer == PushSample \/ CallInferDurations

SpecInfer == InitNorm /\ [][NextInfer]_vars

(***************************************************************************)
(* Claims about inferDurationsWithinFile                                   *)
(***************************************************************************)

Inferred == api = "inferDurationsWithinFile" /\ pc = "returned"

\* the samples come back in the order given, with their dts, cts and
\* payload, and with their duration when it was not 0
InferredKeepsTheRest ==
    /\ Len(normalized) = Len(InputList)
    /\ \A i \in 1..Len(InputList) :
          /\ normalized[i].dts = InputList[i].dts
          /\ normalized[i].cts = InputList[i].cts
          /\ normalized[i].data = InputList[i].data
          /\ InputList[i].duration # 0 => normalized[i].duration = InputList[i].duration

\* Math.max over the values of a non-empty list
RECURSIVE MathMaxOf(_)
MathMaxOf(values) ==
    IF Len(values) = 1 THEN values[1]
    ELSE MathMax(values[1], MathMaxOf(Tail(values)))

\* C26 as stated: a zero duration becomes max(1, next.dts - cur.dts) when
\* the file has a next sample, else the (repaired) duration of the sample
\* before, or 1 if there is none; the other durations and every dts and cts
\* are returned unchanged; fileDuration is the maximum of
\* dts + max(0, duration) over the repaired list, 0 for an empty file.
C26_DurationRepair ==
    Inferred =>
        /\ InferredKeepsTheRest
        /\ \A i \in 1..Len(InputList) :
              InputList[i].duration = 0 =>
                 normalized[i].duration =
                    IF i < Len(InputList)
                    THEN MathMax(1, JSub(InputList[i + 1].dts, InputList[i].dts))
                    ELSE IF i > 1 THEN normalized[i - 1].duration ELSE 1
        /\ fileDuration =
              IF Len(normalized) = 0 THEN 0
              ELSE MathMaxOf([i \in 1..Len(normalized) |->
                      JAdd(normalized[i].dts, MathMax(0, normalized[i].duration))])

\* C26 (amended): a zero duration becomes next.dts - cur.dts when the file
\* has a next sample and that difference is finite and positive, and 1 when
\* it is not; for the last sample it becomes max(1, the (repaired) duration
\* of the sample before), or 1 if there is none; the other durations and
\* every dts and cts are returned unchanged; fileDuration is 0 or the
\* greatest dts + max(0, duration) of the repaired list that compares above
\* 0 and above the ends before it.
C26_GuardedRepair ==
    Inferred =>
        /\ InferredKeepsTheRest
        /\ \A i \in 1..Len(InputList) :
              InputList[i].duration = 0 =>
                 normalized[i].duration =
                    IF i < Len(InputList)
                    THEN LET delta == JSub(InputList[i + 1].dts, InputList[i].dts)
                         IN  IF IsFinite(delta) /\ delta > 0 THEN delta ELSE 1
                    ELSE IF i > 1 THEN MathMax(1, normalized[i - 1].duration) ELSE 1
        /\ LET ends == [i \in 1..Len(normalized) |->
                          JAdd(normalized[i].dts, MathMax(0, normalized[i].duration))]
           IN  /\ \A i \in 1..Len(ends) : ~JGt(ends[i], fileDuration)
               /\ fileDuration = 0 \/ \E i \in 1..Len(ends) : ends[i] = fileDuration

\* three samples without a duration: the first comes after its successor
\* and takes 1, the second takes the distance to the third, the last takes
\* the repaired duration of the second
C26_Witness ==
    /\ Inferred
    /\ Len(InputList) = 3
    /\ \A i \in 1..3 : InputList[i].duration = 0
    /\ InputList[2].dts < InputList[1].dts
    /\ normalized[1].duration = 1
    /\ normalized[2].duration = InputList[3].dts - InputList[2].dts
    /\ normalized[2].duration > 1
    /\ normalized[3].duration = normalized[2].duration
    /\ fileDuration = InputList[3].dts + normalized[3].duration


(***************************************************************************)
(* Claims about the list the normalizer returns                            *)
(***************************************************************************)

\* normalize or normalizeFragments has returned
NormalizeReturned == pc = "returned" /\ api \in {"normalize", "normalizeFragments"}

\* C29: in the list normalize / normalizeFragments returns every sample has
\* a finite duration >= 1 and every sample after the first starts at or
\* after the end (dts + duration, with the returned durations) of the one
\* before it: decode intervals do not overlap and dts increases strictly.
C29_NonOverlap ==
    NormalizeReturned =>
        /\ \A i \in 1..Len(normalized) :
              /\ IsFinite(normalized[i].dts)
              /\ IsFinite(normalized[i].duration)
              /\ normalized[i].duration >= 1
        /\ \A i \in 2..Len(normalized) :
              /\ normalized[i].dts >= normalized[i - 1].dts + normalized[i - 1].duration
              /\ normalized[i].dts > normalized[i - 1].dts

\* two files whose samples overlapped and had a negative and a zero
\* duration: the second sample was moved to the end of the first, the third
\* starts after a gap
C29_Witness ==
    /\ NormalizeReturned
    /\ Len(normalized) = 3
    /\ \E i \in 1..3 : InputList[i].duration = 0
    /\ \E i \in 1..3 : InputList[i].duration < 0
    /\ InputList[2].dts = InputList[1].dts
    /\ normalized[2].dts = normalized[1].dts + normalized[1].duration
    /\ normalized[3].dts > normalized[2].dts + normalized[2].duration


(***************************************************************************)
(* SpecAgain: a caller normalizes a list and hands the list it got back to *)
(* normalize once more.                                                    *)
(***************************************************************************)

\* normalizer.normalize(returned, {preserveOrder}) on the list the first
\* call returned; the caller keeps that list next to its own
NormalizeAgain ==
    /\ pc = "returned"
    /\ \E preserveOrder \in BOOLEAN :
         \E r \in normalize(normalized, preserveOrder) :
            /\ opts' = [opts EXCEPT !.preserveOrder = preserveOrder]
            /\ normalized' = r.samples
            /\ discontinuityDetected' = r.discontinuityDetected
    /\ perFileSamples' = Append(perFileSamples, normalized)
    /\ pc' = "renormalized"
    /\ UNCHANGED splitVars
    /\ UNCHANGED <<fileDuration, boxVars>>
    /\ UNCHANGED <<api, config, fragments, built, err>>

NextAgain == PushSample \/ CallNormalize \/ NormalizeAgain

SpecAgain == InitNorm /\ [][NextAgain]_vars

\* the list the first call returned, as handed to the second
FirstResult == perFileSamples[2]

\* C30: normalize applied to a list it has returned, with preserveOrder or
\* without, returns the samples in the same order with the same dts, cts
\* and duration, and reports discontinuityDetected = false.
C30_Idempotent ==
    pc = "renormalized" =>
        /\ Len(normalized) = Len(FirstResult)
        /\ \A i \in 1..Len(normalized) :
              /\ normalized[i].data = FirstResult[i].data
              /\ normalized[i].dts = FirstResult[i].dts
              /\ normalized[i].cts = FirstResult[i].cts
              /\ normalized[i].duration = FirstResult[i].duration
        /\ ~discontinuityDetected

\* the first call sorted the caller's list and repaired a zero duration
\* across a gap; the second call, which sorts too, changes nothing
C30_Witness ==
    /\ pc = "renormalized"
    /\ ~opts.preserveOrder
    /\ Len(normalized) = 3
    /\ \E i \in 1..3 : perFileSamples[1][i].data # FirstResult[i].data
    /\ \E i \in 1..2 : /\ FirstResult[i].duration > 1
                       /\ \E j \in 1..3 : /\ perFileSamples[1][j].data = FirstResult[i].data
                                          /\ perFileSamples[1][j].duration = 0
    /\ normalized = FirstResult


(***************************************************************************)
(* SpecBoxes: a caller fills a byte buffer box by box and calls parseBoxes *)
(* on a range of it; every iteration of the loop of parseBoxes is a step.  *)
(***************************************************************************)

\* how many bytes a buffer has at most
MaxBytes == 40

\* a 32-bit field holding v
Enc32(v) == <<(v \div 512) % 8, (v \div 64) % 8, (v \div 8) % 8, v % 8>>

Zeros(n) == [k \in 1..n |-> 0]

\* the type code every chunk carries
ChunkType == <<3, 1, 4, 1>>

\* The chunks a buffer is made of: well-formed boxes with a 32-bit and a
\* 64-bit size, a box running to the end (size32 = 0), boxes declared
\* smaller than their header, a box declared larger than any buffer, a
\* 64-bit size above the safe-integer range, and four stray bytes.
Chunks ==
    { Enc32(8) \o ChunkType,
      Enc32(12) \o ChunkType \o Zeros(4),
      Enc32(1) \o ChunkType \o Enc32(0) \o Enc32(20) \o Zeros(4),
      Enc32(0) \o ChunkType \o Zeros(4),
      Enc32(4) \o ChunkType,
      Enc32(1) \o ChunkType \o Enc32(0) \o Enc32(8),
      Enc32(100) \o ChunkType,
      Enc32(1) \o ChunkType \o Enc32(64) \o Enc32(0),
      <<0, 0, 0, 7>> }

\* the caller appends one chunk to the buffer
PushChunk ==
    /\ pc = "input"
    /\ \E c \in Chunks :
        /\ Len(data) + Len(c) <= MaxBytes
        /\ data' = data \o c
    /\ UNCHANGED <<pc, api, opts, config, fragments, perFileSamples, normalized,
                   discontinuityDetected, built, err, range, off, boxes>>
    /\ UNCHANGED splitVars
    /\ UNCHANGED fileDuration

\* parseBoxes(data, start, end) is entered: boxes = [], off = start.  The
\* range is the whole buffer (the defaults), a range inside it, as the
\* callers that walk the children of a box pass, or one that ends past it.
CallParseBoxes ==
    /\ pc = "input"
    /\ \E start \in {0, 1, 8} : \E end \in {Len(data) - 4, Len(data), Len(data) + 4} :
        /\ end >= 0
        /\ range' = [start |-> start, end |-> end]
        /\ off' = start
    /\ boxes' = << >>
    /\ pc' = "walking"
    /\ api' = "parseBoxes"
    /\ UNCHANGED <<opts, config, fragments, perFileSamples, normalized,
                   discontinuityDetected, built, err, data>>
    /\ UNCHANGED splitVars
    /\ UNCHANGED fileDuration

\* one iteration of the loop: the loop is left and boxes returned, the
\* iteration throws, or it pushes a box and moves off to the end of it
WalkStep ==
    /\ pc = "walking"
    /\ \E it \in {WalkIteration(data, range.end, off)} :
        /\ pc' = CASE it.do = "stop" -> "returned"
                   [] it.do = "throw" -> "failed"
                   [] OTHER -> "walking"
        /\ err' = IF it.do = "throw" THEN "BoxTooLarge" ELSE err
        /\ boxes' = IF it.do = "push" THEN Append(boxes, it.box) ELSE boxes
        /\ off' = IF it.do = "push" THEN off + it.box.size ELSE off
    /\ UNCHANGED <<api, opts, config, fragments, perFileSamples, normalized,
                   discontinuityDetected, built, data, range>>
    /\ UNCHANGED splitVars
    /\ UNCHANGED fileDuration

NextBoxes == PushChunk \/ CallParseBoxes \/ WalkStep

SpecBoxes == InitExtract /\ [][NextBoxes]_vars

\* the loop of parseBoxes is not suspended: it has no await and no callback
SpecBoxesLive == SpecBoxes /\ WF_vars(WalkStep)


(***************************************************************************)
(* Claims about parseBoxes                                                 *)
(***************************************************************************)

\* the size field the buffer declares for the box at offset o
DeclaredSize32(o) == readU32(data, o)

\* C24: every Box parseBoxes returns has headerSize 8 or 16, headerSize <=
\* size and end = start + size <= the range end; the first box starts at the
\* range start and each next box starts where the previous one ends; a box
\* declared with size32 = 0 ends at the range end and is the last box.
C24_BoxInvariants ==
    (api = "parseBoxes" /\ pc = "returned") =>
        /\ \A i \in 1..Len(boxes) :
            /\ boxes[i].headerSize \in {8, 16}
            /\ boxes[i].headerSize <= boxes[i].size
            /\ boxes[i].end = boxes[i].start + boxes[i].size
            /\ boxes[i].end <= range.end
            /\ boxes[i].start = IF i = 1 THEN range.start ELSE boxes[i - 1].end
            /\ DeclaredSize32(boxes[i].start) = 0 =>
                 boxes[i].end = range.end /\ i = Len(boxes)

\* a returned list of three boxes, of both header sizes, that ends with a box
\* declared with size32 = 0, on a range that ends before the buffer does
C24_Witness ==
    /\ api = "parseBoxes" /\ pc = "returned"
    /\ Len(boxes) = 3
    /\ {boxes[i].headerSize : i \in 1..3} = {8, 16}
    /\ DeclaredSize32(boxes[3].start) = 0
    /\ range.end < Len(data)

\* the box at offset o cannot be taken: it is declared smaller than its
\* header or it overruns the range end
TruncatedAt(o) ==
    /\ o + 8 <= range.end
    /\ \/ DeclaredSize32(o) \notin {0, 1}
          /\ (DeclaredSize32(o) < 8 \/ o + DeclaredSize32(o) > range.end)
       \/ DeclaredSize32(o) = 1
          /\ o + 16 <= range.end
          /\ readU64(data, o + 8) <= MaxSafeInteger
          /\ (readU64(data, o + 8) < 16 \/ o + readU64(data, o + 8) > range.end)

\* the box at offset o declares a 64-bit size above the safe-integer range
TooLargeAt(o) ==
    /\ o + 16 <= range.end
    /\ DeclaredSize32(o) = 1
    /\ readU64(data, o + 8) > MaxSafeInteger

\* every iteration stops or advances off by at least 8 bytes; a box that
\* cannot be taken stops the walk with the boxes before it and no error
WalkAdvances ==
    [][pc = "walking" =>
          /\ pc' = "walking" => off' >= off + 8 /\ Len(boxes') = Len(boxes) + 1
          /\ pc' # "walking" => boxes' = boxes /\ off' = off
          /\ TruncatedAt(off) => pc' = "returned" /\ err' = "none"
          /\ pc' = "failed" <=> TooLargeAt(off)
          /\ pc' = "failed" => err' = "BoxTooLarge"]_vars

\* C25: parseBoxes terminates on every buffer and range: each iteration of
\* its loop stops or advances the offset by at least 8 bytes; a box declared
\* smaller than its header or overrunning the range end stops the walk
\* silently with the boxes before it; BoxTooLarge, for a 64-bit size above
\* the safe-integer range, is the only error.
C25_Terminates ==
    /\ WalkAdvances
    /\ [](api = "parseBoxes" => err \in {"none", "BoxTooLarge"})
    /\ [](pc = "returned" /\ api = "parseBoxes" => err = "none")
    /\ (pc = "walking") ~> (pc \in {"returned", "failed"})

\* a walk that took two boxes and was stopped, silently, by a box declared
\* smaller than its header
C25_Witness ==
    /\ api = "parseBoxes" /\ pc = "returned" /\ err = "none"
    /\ Len(boxes) = 2
    /\ TruncatedAt(off)
    /\ DeclaredSize32(off) = 4

\* a walk that took a box and then threw BoxTooLarge
C25_WitnessTooLarge ==
    /\ api = "parseBoxes" /\ pc = "failed" /\ err = "BoxTooLarge"
    /\ off > range.start
    /\ TooLargeAt(off)

=============================================================================
